---- MODULE Spec2Model ----
(***************************************************************************)
(* A model of the JPEG Huffman-table steganography tool: the factorial     *)
(* number systems NS0 / NS1 / NS2 (src/src/fns), the segment scanner and   *)
(* writer (src/src/jpeg), the entropy-stream transcoder and the secret     *)
(* engine (src/src/lib_secret.rs, src/src/main.rs).                        *)
(***************************************************************************)
EXTENDS Integers, Sequences, FiniteSets, TLC

(***************************************************************************)
(* Bounds of the model.                                                    *)
(***************************************************************************)
\* largest entry of a size list drawn for the number-system runs
MaxSize == 3
\* width of the low and of the high window of integers tried per size input
MaxValue == 12

(***************************************************************************)
(* Small helpers over sequences.                                           *)
(***************************************************************************)
Min(a, b) == IF a <= b THEN a ELSE b

Max(a, b) == IF a >= b THEN a ELSE b

RECURSIVE Product(_)
Product(s) == IF s = <<>> THEN 1 ELSE Head(s) * Product(Tail(s))

RECURSIVE Sum(_)
Sum(s) == IF s = <<>> THEN 0 ELSE Head(s) + Sum(Tail(s))

\* Vec::remove(i), with i counted from 1
RemoveAt(s, i) == SubSeq(s, 1, i - 1) \o SubSeq(s, i + 1, Len(s))

\* Iterator::position: the 0-based index of the first element equal to v, -1 for None
Position(s, v) ==
    IF \E i \in 1..Len(s) : s[i] = v
    THEN (CHOOSE i \in 1..Len(s) : s[i] = v /\ \A j \in 1..(i - 1) : s[j] # v) - 1
    ELSE -1

RECURSIVE Insert(_, _)
Insert(s, v) ==
    IF s = <<>> THEN <<v>>
    ELSE IF v <= Head(s) THEN <<v>> \o s
    ELSE <<Head(s)>> \o Insert(Tail(s), v)

\* slice::sort on bytes
RECURSIVE sort(_)
sort(s) == IF s = <<>> THEN <<>> ELSE Insert(sort(Tail(s)), Head(s))

\* Option<NS>, with a third outcome for a panic (unwrap of None, slice out of range)
None == [kind |-> "None", digits |-> <<>>]

Some(d) == [kind |-> "Some", digits |-> d]

Panic == [kind |-> "Panic", digits |-> <<>>]

(***************************************************************************)
(* fns/mod.rs, fns/traits.rs                                               *)
(***************************************************************************)
RECURSIVE factorial(_)
factorial(n) == IF n > 1 THEN n * factorial(n - 1) ELSE 1

\* the filter that keeps the entries of size 1
valid_sizes_positive(s) == SelectSeq(s, LAMBDA v : v > 0)

\* ValidInputs<Vec<usize>> for Vec<usize>
valid_sizes(s) == SelectSeq(s, LAMBDA v : v > 1)

\* ValidInputs<Vec<Vec<usize>>> for Vec<Vec<usize>>
valid_groups(S) == SelectSeq(S, LAMBDA g : valid_sizes(g) # <<>>)

\* base_info that gives the first input the place value 1
base_info_forward(maxes) ==
    [max   |-> Product(maxes),
     bases |-> [i \in 1..Len(maxes) |-> Product(SubSeq(maxes, 1, i - 1))]]

\* base_info over the max_base_value of each valid input, in input order:
\* the last input gets place value 1, each earlier one the product of those after it
base_info(maxes) ==
    [max   |-> Product(maxes),
     bases |-> [i \in 1..Len(maxes) |-> Product(SubSeq(maxes, i + 1, Len(maxes)))]]

\* Bases for usize: (1..n).rev().map(factorial)
usize_bases_off(n) == [i \in 1..(IF n >= 1 THEN n - 1 ELSE 0) |-> factorial(n - i + 1)]

usize_bases(n) == [i \in 1..(IF n >= 1 THEN n - 1 ELSE 0) |-> factorial(n - i)]

\* MaxBaseValue for usize
max_base_value_usize(n) == factorial(n)

\* MaxBaseValue for Vec<usize>
max_base_value_sizes(s) ==
    LET v == valid_sizes(s)
    IN  base_info([i \in 1..Len(v) |-> max_base_value_usize(v[i])]).max

\* ValueBases for Vec<usize>
value_bases_sizes(s) ==
    LET v == valid_sizes(s)
        info == base_info([i \in 1..Len(v) |-> max_base_value_usize(v[i])])
    IN  [i \in 1..Len(v) |-> [input |-> v[i], base |-> info.bases[i]]]

\* MaxBaseValue for Vec<Vec<usize>>
max_base_value_groups(S) ==
    LET v == valid_groups(S)
    IN  base_info([i \in 1..Len(v) |-> max_base_value_sizes(v[i])]).max

\* ValueBases for Vec<Vec<usize>>
value_bases_groups(S) ==
    LET v == valid_groups(S)
        info == base_info([i \in 1..Len(v) |-> max_base_value_sizes(v[i])])
    IN  [i \in 1..Len(v) |-> [input |-> v[i], base |-> info.bases[i]]]

(***************************************************************************)
(* fns/ns0.rs                                                              *)
(***************************************************************************)
RECURSIVE DigitsOf(_, _)
DigitsOf(value, bases) ==
    IF bases = <<>> THEN <<>>
    ELSE LET digit == value \div Head(bases)
         IN  <<digit>> \o DigitsOf(value - digit * Head(bases), Tail(bases))

NS0_try_from_input(value, n) ==
    IF value >= max_base_value_usize(n) THEN None
    ELSE Some(DigitsOf(value, usize_bases(n)))

RECURSIVE TakeDigits(_, _)
TakeDigits(digits, available) ==
    IF digits = <<>> THEN available
    ELSE <<available[Head(digits) + 1]>>
         \o TakeDigits(Tail(digits), RemoveAt(available, Head(digits) + 1))

\* the same walk that forgets to remove the element it has taken
RECURSIVE TakeDigitsKeep(_, _)
TakeDigitsKeep(digits, available) ==
    IF digits = <<>> THEN available
    ELSE <<available[Head(digits) + 1]>>
         \o TakeDigitsKeep(Tail(digits), Tail(available))

NS0_to_permutation_keep(digits) ==
    TakeDigitsKeep(digits, [i \in 1..(Len(digits) + 1) |-> i - 1])

\* to_permutation that starts from the indices in descending order
NS0_to_permutation_descending(digits) ==
    TakeDigits(digits, [i \in 1..(Len(digits) + 1) |-> Len(digits) + 1 - i])

NS0_to_permutation(digits) ==
    TakeDigits(digits, [i \in 1..(Len(digits) + 1) |-> i - 1])

RECURSIVE FindDigits(_, _)
FindDigits(prefix, available) ==
    IF prefix = <<>> THEN Some(<<>>)
    ELSE LET index == Position(available, Head(prefix))
         IN  IF index < 0 THEN Panic
             ELSE LET rest == FindDigits(Tail(prefix), RemoveAt(available, index + 1))
                  IN  IF rest.kind # "Some" THEN Panic
                      ELSE Some(<<index>> \o rest.digits)

NS0_from_permutation(permutation) ==
    IF Len(permutation) = 0 THEN Panic
    ELSE FindDigits(SubSeq(permutation, 1, Len(permutation) - 1),
                    [i \in 1..Len(permutation) |-> i - 1])

\* the buffer after permute_values, or "Panic" in kind
BufOk(v) == [kind |-> "Ok", values |-> v]

BufPanic == [kind |-> "Panic", values |-> <<>>]

NS0_permute_values_unsorted(digits, values) ==
    LET permutation == NS0_to_permutation(digits)
    IN  IF Len(permutation) > Len(values) THEN BufPanic
        ELSE BufOk([i \in 1..Len(values) |->
                      IF i <= Len(permutation) THEN values[permutation[i] + 1]
                      ELSE values[i]])

NS0_permute_values(digits, values) ==
    LET permutation == NS0_to_permutation(digits)
        old_values == sort(values)
    IN  IF Len(permutation) > Len(values) THEN BufPanic
        ELSE BufOk([i \in 1..Len(values) |->
                      IF i <= Len(permutation) THEN old_values[permutation[i] + 1]
                      ELSE values[i]])

NS0_read_values(values) ==
    LET sorted_values == sort(values)
        permutation == [i \in 1..Len(values) |-> Position(sorted_values, values[i])]
    IN  NS0_from_permutation(permutation)

\* From<NS0> for BigUint: digits zipped with the bases of digits.len() + 1
NS0_to_biguint(digits) ==
    LET bases == usize_bases(Len(digits) + 1)
    IN  Sum([i \in 1..Len(digits) |-> digits[i] * bases[i]])

(***************************************************************************)
(* factorial_number_system.rs                                              *)
(***************************************************************************)
\* From<T> for FNS, "find extent": the least k >= 1 with (k + 1)! > value
RECURSIVE FNS_num_digits(_, _)
FNS_num_digits(value, num_digits) ==
    IF factorial(num_digits + 1) > value THEN num_digits
    ELSE FNS_num_digits(value, num_digits + 1)

\* From<T> for FNS: the digits, most significant first
FNS_from(value) ==
    LET num_digits == FNS_num_digits(value, 1)
    IN  DigitsOf(value, [i \in 1..num_digits |-> factorial(num_digits + 1 - i)])

\* FNS::to_permutation(size): the digits are left-padded with zeros to
\* size - 1; size - digits.len() - 1 below zero is an arithmetic overflow
FNS_to_permutation(digits, size) ==
    IF size - Len(digits) - 1 < 0 THEN BufPanic
    ELSE BufOk(TakeDigits([i \in 1..(size - Len(digits) - 1) |-> 0] \o digits,
                          [i \in 1..size |-> i - 1]))

(***************************************************************************)
(* fns/ns1.rs                                                              *)
(***************************************************************************)
\* traits::try_from_input with Parent = NS1, Child = NS0
RECURSIVE NS1_digits(_, _)
NS1_digits(value, bases) ==
    IF bases = <<>> THEN Some(<<>>)
    ELSE LET b == Head(bases)
             digit == value \div b.base
             child == NS0_try_from_input(digit, b.input)
             rest == NS1_digits(value - digit * b.base, Tail(bases))
         IN  IF child.kind # "Some" \/ rest.kind # "Some" THEN Panic
             ELSE Some(<<child.digits>> \o rest.digits)

NS1_try_from_input(value, s) ==
    IF value >= max_base_value_sizes(s) THEN None
    ELSE NS1_digits(value, value_bases_sizes(s))

\* MaxBaseValue for NS1 (impl_sub_ns): base_info over its digits
NS1_max_base_value(ds) ==
    base_info([i \in 1..Len(ds) |-> max_base_value_usize(Len(ds[i]) + 1)]).max

\* Bases for NS1
NS1_bases(ds) ==
    base_info([i \in 1..Len(ds) |-> max_base_value_usize(Len(ds[i]) + 1)]).bases

\* From<NS1> for BigUint
NS1_to_biguint(ds) ==
    LET bases == NS1_bases(ds)
    IN  Sum([i \in 1..Len(ds) |-> NS0_to_biguint(ds[i]) * bases[i]])

\* the same walk that permutes each slice from its current order
RECURSIVE NS1_permute_values_current(_, _)
NS1_permute_values_current(ds, values) ==
    IF ds = <<>> THEN BufOk(values)
    ELSE LET size == Len(Head(ds)) + 1
         IN  IF size > Len(values) THEN BufPanic
             ELSE LET local == NS0_permute_values_unsorted(
                                   Head(ds), SubSeq(values, 1, size))
                      rest == NS1_permute_values_current(
                                  Tail(ds), SubSeq(values, size + 1, Len(values)))
                  IN  IF local.kind # "Ok" \/ rest.kind # "Ok" THEN BufPanic
                      ELSE BufOk(local.values \o rest.values)

\* split_values_mut followed by the per-digit permute_values
RECURSIVE NS1_permute_values(_, _)
NS1_permute_values(ds, values) ==
    IF ds = <<>> THEN BufOk(values)
    ELSE LET size == Len(Head(ds)) + 1
         IN  IF size > Len(values) THEN BufPanic
             ELSE LET local == NS0_permute_values(Head(ds), SubSeq(values, 1, size))
                      rest == NS1_permute_values(Tail(ds),
                                                 SubSeq(values, size + 1, Len(values)))
                  IN  IF local.kind # "Ok" \/ rest.kind # "Ok" THEN BufPanic
                      ELSE BufOk(local.values \o rest.values)

\* split_values and the weighted sum of read_values; -1 stands for a panic
RECURSIVE NS1_read_sum(_, _)
NS1_read_sum(bases, values) ==
    IF bases = <<>> THEN 0
    ELSE LET size == Head(bases).input
         IN  IF size > Len(values) THEN -1
             ELSE LET ns0 == NS0_read_values(SubSeq(values, 1, size))
                      rest == NS1_read_sum(Tail(bases),
                                           SubSeq(values, size + 1, Len(values)))
                  IN  IF ns0.kind # "Some" \/ rest < 0 THEN -1
                      ELSE Head(bases).base * NS0_to_biguint(ns0.digits) + rest

\* read_values with slices laid out by all entries of s: an entry below 2
\* is skipped together with its bytes
NS1_read_values_by_entry(s, values) ==
    LET owned(q) == \E i \in 1..Len(s) :
                        /\ s[i] > 1
                        /\ Sum(SubSeq(s, 1, i - 1)) < q
                        /\ q <= Sum(SubSeq(s, 1, i))
        kept == SelectSeq([q \in 1..Len(values) |-> <<q, values[q]>>],
                          LAMBDA pair : owned(pair[1]))
        gathered == [k \in 1..Len(kept) |-> kept[k][2]]
        result == NS1_read_sum(value_bases_sizes(s), gathered)
    IN  IF result < 0 THEN Panic
        ELSE LET ns == NS1_try_from_input(result, s)
             IN  IF ns.kind # "Some" THEN Panic ELSE ns

NS1_read_values(s, values) ==
    LET result == NS1_read_sum(value_bases_sizes(s), values)
    IN  IF result < 0 THEN Panic
        ELSE LET ns == NS1_try_from_input(result, s)
             IN  IF ns.kind # "Some" THEN Panic ELSE ns

(***************************************************************************)
(* fns/ns2.rs                                                              *)
(***************************************************************************)
\* traits::try_from_input with Parent = NS2, Child = NS1
RECURSIVE NS2_digits(_, _)
NS2_digits(value, bases) ==
    IF bases = <<>> THEN Some(<<>>)
    ELSE LET b == Head(bases)
             digit == value \div b.base
             child == NS1_try_from_input(digit, b.input)
             rest == NS2_digits(value - digit * b.base, Tail(bases))
         IN  IF child.kind # "Some" \/ rest.kind # "Some" THEN Panic
             ELSE Some(<<child.digits>> \o rest.digits)

NS2_try_from_input_gt(value, S) ==
    IF value > max_base_value_groups(S) THEN None
    ELSE NS2_digits(value, value_bases_groups(S))

NS2_try_from_input(value, S) ==
    IF value >= max_base_value_groups(S) THEN None
    ELSE NS2_digits(value, value_bases_groups(S))

\* Bases for NS2
NS2_bases(dss) ==
    base_info([i \in 1..Len(dss) |-> NS1_max_base_value(dss[i])]).bases

\* From<NS2> for BigUint
NS2_to_biguint(dss) ==
    LET bases == NS2_bases(dss)
    IN  Sum([i \in 1..Len(dss) |-> NS1_to_biguint(dss[i]) * bases[i]])

\* the digits are zipped with the value lists: digit i permutes list i
NS2_permute_values(dss, values) ==
    LET n == Min(Len(dss), Len(values))
        each == [i \in 1..n |-> NS1_permute_values(dss[i], values[i])]
    IN  IF \E i \in 1..n : each[i].kind # "Ok" THEN BufPanic
        ELSE BufOk([i \in 1..Len(values) |->
                      IF i <= n THEN each[i].values ELSE values[i]])

\* input.iter() zipped with the bases of the valid groups and with the value lists
NS2_read_values(S, values) ==
    LET bases == value_bases_groups(S)
        n == Min(Len(S), Min(Len(bases), Len(values)))
        each == [i \in 1..n |-> NS1_read_values(S[i], values[i])]
    IN  IF \E i \in 1..n : each[i].kind # "Some" THEN Panic
        ELSE LET result == Sum([i \in 1..n |->
                                  bases[i].base * NS1_to_biguint(each[i].digits)])
                 ns == NS2_try_from_input(result, S)
             IN  IF ns.kind # "Some" THEN Panic ELSE ns


(***************************************************************************)
(* The JPEG container (jpeg/marker.rs, jpeg/jpeg.rs, jpeg/segments.rs).    *)
(* A file is a sequence of bytes 0..255.  An operation that can fail       *)
(* returns Ok(v), Err(e) (an error value the caller receives) or Fault (a  *)
(* panic: an index out of range, an unwrap of None, a failed assertion).   *)
(***************************************************************************)
Ok(v) == [kind |-> "Ok", val |-> v]

Err(e) == [kind |-> "Err", val |-> e]

Fault == [kind |-> "Panic", val |-> <<>>]

\* bytes[a..b] is defined when a <= b <= len; it panics otherwise
InRange(bytes, a, b) == a <= b /\ b <= Len(bytes)

\* bytes[a..b], indices from 0, b excluded
Slice(bytes, a, b) == SubSeq(bytes, a + 1, b)

RECURSIVE Flatten(_)
Flatten(ss) == IF ss = <<>> THEN <<>> ELSE Head(ss) \o Flatten(Tail(ss))

\* impl From<u8> for Marker
Marker_from_u8(b) ==
    IF b = 192 THEN [kind |-> "SOF0", n |-> 0]
    ELSE IF b = 193 THEN [kind |-> "SOF1", n |-> 0]
    ELSE IF b = 194 THEN [kind |-> "SOF2", n |-> 0]
    ELSE IF b = 196 THEN [kind |-> "DHT", n |-> 0]
    ELSE IF b >= 208 /\ b <= 215 THEN [kind |-> "RST", n |-> b - 208]
    ELSE IF b = 216 THEN [kind |-> "SOI", n |-> 0]
    ELSE IF b = 217 THEN [kind |-> "EOI", n |-> 0]
    ELSE IF b = 218 THEN [kind |-> "SOS", n |-> 0]
    ELSE IF b = 219 THEN [kind |-> "DQT", n |-> 0]
    ELSE IF b = 220 THEN [kind |-> "DNL", n |-> 0]
    ELSE IF b = 221 THEN [kind |-> "DRI", n |-> 0]
    ELSE [kind |-> "Unknown", n |-> b]

\* impl From<Marker> for u8
u8_from_Marker(m) ==
    CASE m.kind = "SOF0" -> 192
      [] m.kind = "SOF1" -> 193
      [] m.kind = "SOF2" -> 194
      [] m.kind = "DHT" -> 196
      [] m.kind = "RST" -> 208 + m.n
      [] m.kind = "SOI" -> 216
      [] m.kind = "EOI" -> 217
      [] m.kind = "SOS" -> 218
      [] m.kind = "DQT" -> 219
      [] m.kind = "DNL" -> 220
      [] m.kind = "DRI" -> 221
      [] OTHER -> m.n

\* Jpeg::scan_sections, first loop, the steps over bytes that are not 0xFF:
\* the first index from `index` on that holds 0xFF, or the index the loop
\* stops at when there is none
next_ff(bytes, index) ==
    LET ffs == {i \in index..(Len(bytes) - 2) : bytes[i + 1] = 255}
    IN  IF ffs = {} THEN Max(index, Len(bytes) - 1)
        ELSE CHOOSE i \in ffs : \A j \in ffs : i <= j

\* the first loop with restart markers recorded like any other marker
RECURSIVE scan_markers_with_rst(_, _)
scan_markers_with_rst(bytes, index) ==
    IF ~(index < Len(bytes) - 1) THEN [markers |-> <<>>, index |-> index]
    ELSE IF bytes[index + 1] # 255 THEN scan_markers_with_rst(bytes, next_ff(bytes, index))
    ELSE LET marker_byte == bytes[index + 2]
             marker == Marker_from_u8(marker_byte)
             rest == scan_markers_with_rst(bytes, index + 2)
         IN  IF marker_byte = 255 \/ marker_byte = 0
             THEN rest
             ELSE [markers |-> <<[index |-> index, marker |-> marker]>> \o rest.markers,
                   index |-> rest.index]

\* Jpeg::scan_sections, first loop: the positions of the markers that are
\* not restart markers, and the index the loop stops at
RECURSIVE scan_markers(_, _)
scan_markers(bytes, index) ==
    IF ~(index < Len(bytes) - 1) THEN [markers |-> <<>>, index |-> index]
    ELSE IF bytes[index + 1] # 255 THEN scan_markers(bytes, next_ff(bytes, index))
    ELSE LET marker_byte == bytes[index + 2]
             marker == Marker_from_u8(marker_byte)
             rest == scan_markers(bytes, index + 2)
         IN  IF marker_byte = 255 \/ marker_byte = 0 \/ marker.kind = "RST"
             THEN rest
             ELSE [markers |-> <<[index |-> index, marker |-> marker]>> \o rest.markers,
                   index |-> rest.index]

\* Jpeg::scan_sections: the segments of a file.  The payload of a segment
\* runs from the end of its marker (and of its two length bytes, except for
\* SOI, EOI and RST) to the next marker; the payload of the last segment
\* runs to the index the first loop stopped at.
scan_sections(bytes) ==
    IF Len(bytes) = 0 THEN Fault
    ELSE LET scan == scan_markers(bytes, 0)
             m == scan.markers
             n == Len(m)
             prev_index(j) == IF j = 1 THEN 2 ELSE m[j].index + 2
             offset(j) == IF m[j].marker.kind \in {"SOI", "EOI", "RST"} THEN 0 ELSE 2
             from(j) == IF j < n THEN prev_index(j) + offset(j) ELSE prev_index(j)
             to(j) == IF j < n THEN m[j + 1].index ELSE scan.index
         IN  IF \E j \in 1..n : ~InRange(bytes, from(j), to(j)) THEN Fault
             ELSE Ok([j \in 1..n |-> [index |-> m[j].index,
                                      marker |-> m[j].marker,
                                      data |-> Slice(bytes, from(j), to(j))]])

\* impl TryFrom<&[u8]> for Component
Component_try_from(data) ==
    IF Len(data) < 3 THEN Fault
    ELSE Ok([component_id |-> data[1],
             h_factor |-> data[2] \div 16,
             v_factor |-> data[2] % 16,
             table_index |-> data[3]])

\* impl TryFrom<&[u8]> for SofData
SofData_try_from(data) ==
    IF Len(data) < 6 THEN Fault
    ELSE LET num_components == data[6]
             rest == Slice(data, 6, Len(data))
             comp(c) == IF 3 * c > Len(rest) THEN Fault
                        ELSE Component_try_from(Slice(rest, 3 * c, Len(rest)))
         IN  IF \E c \in 0..(num_components - 1) : comp(c).kind # "Ok" THEN Fault
             ELSE Ok([precision |-> data[1],
                      height |-> data[2] * 256 + data[3],
                      width |-> data[4] * 256 + data[5],
                      components |-> [c \in 1..num_components |-> comp(c - 1).val]])

\* impl Default for SofData
SofData_default == [precision |-> 0, height |-> 0, width |-> 0, components |-> <<>>]

\* impl TryFrom<&[u8]> for HuffmanTableData
HuffmanTableData_try_from(data) ==
    IF Len(data) < 17 THEN Fault
    ELSE LET sizes == Slice(data, 1, 17)
             num_values == Sum(sizes)
         IN  IF Len(data) < 17 + num_values THEN Fault
             ELSE Ok([table_class |-> data[1] \div 16,
                      table_index |-> data[1] % 16,
                      sizes |-> sizes,
                      values |-> Slice(data, 17, 17 + num_values)])

\* impl ToVec for HuffmanTableData
HuffmanTableData_to_vec(table) ==
    <<((table.table_class * 16) % 256) + table.table_index>>
        \o [i \in 1..Len(table.sizes) |-> table.sizes[i] % 256]
        \o table.values

\* impl TryFrom<&[u8]> for DhtData: the tables of one DHT payload
RECURSIVE DhtData_try_from(_)
DhtData_try_from(data) ==
    IF Len(data) = 0 THEN Ok(<<>>)
    ELSE LET table == HuffmanTableData_try_from(data)
         IN  IF table.kind # "Ok" THEN Fault
             ELSE LET rest == DhtData_try_from(
                                  Slice(data, 17 + Len(table.val.values), Len(data)))
                  IN  IF rest.kind # "Ok" THEN Fault
                      ELSE Ok(<<table.val>> \o rest.val)

\* impl ToVec for DhtData
DhtData_to_vec(tables) ==
    Flatten([t \in 1..Len(tables) |-> HuffmanTableData_to_vec(tables[t])])

\* impl TryFrom<&[u8]> for SosData (with ScanComponentData)
SosData_try_from(data) ==
    IF Len(data) < 1 THEN Fault
    ELSE LET num_components == data[1]
         IN  IF Len(data) < 2 * num_components + 4 THEN Fault
             ELSE LET rest == Slice(data, 1 + 2 * num_components, Len(data))
                  IN  Ok([spectral_start |-> rest[1],
                          spectral_end |-> rest[2] + 1,
                          approx_high |-> rest[3] \div 16,
                          approx_low |-> rest[3] % 16,
                          components |->
                              [c \in 1..num_components |->
                                  [component_id |-> data[2 * c],
                                   dc_table_index |-> data[2 * c + 1] \div 16,
                                   ac_table_index |-> data[2 * c + 1] % 16]],
                          image_data |-> Slice(rest, 3, Len(rest))])

\* impl Default for SosData
SosData_default ==
    [spectral_start |-> 0, spectral_end |-> 0, approx_high |-> 0, approx_low |-> 0,
     components |-> <<>>, image_data |-> <<>>]

\* impl ToVec for SosData (with ScanComponentData)
SosData_to_vec(scan) ==
    <<Len(scan.components) % 256>>
        \o Flatten([c \in 1..Len(scan.components) |->
                      <<scan.components[c].component_id % 256,
                        ((scan.components[c].dc_table_index * 16) % 256)
                            + scan.components[c].ac_table_index>>])
        \o <<scan.spectral_start % 256,
             (scan.spectral_end - 1) % 256,
             ((scan.approx_high * 16) % 256) + scan.approx_low>>
        \o scan.image_data

\* impl TryFrom<&[u8]> for DriData
DriData_try_from(data) ==
    IF Len(data) < 2 THEN Fault ELSE Ok([count |-> data[1] * 256 + data[2]])

\* BinaryWriter::write_u16, big endian
write_u16(n) == <<(n \div 256) % 256, n % 256>>

\* Jpeg::write_segment: the bytes one segment appends to the writer
write_segment(segment) ==
    LET head == <<255, u8_from_Marker(segment.marker)>>
        k == segment.marker.kind
    IN  IF k \in {"SOI", "EOI"} THEN Ok(head)
        ELSE IF k = "RST" THEN Ok(head \o segment.data)
        ELSE IF k = "SOS"
             THEN IF Len(segment.data) = 0 THEN Fault
                  ELSE Ok(head \o write_u16((6 + 2 * segment.data[1]) % 256)
                               \o segment.data)
        ELSE Ok(head \o write_u16((Len(segment.data) % 65536) + 2) \o segment.data)

(***************************************************************************)
(* Huffman code tables (huffman.rs), the paired bit reader and writer      *)
(* (rw_stream.rs) and the entropy transcoder (jpeg/entropy_stream.rs).     *)
(* A bit string is a sequence of 0 and 1, most significant bit first.      *)
(***************************************************************************)

\* the bits of a byte string, as BitReader<_, BigEndian> delivers them
ToBits(bytes) ==
    [i \in 1..(8 * Len(bytes)) |->
        (bytes[((i - 1) \div 8) + 1] \div (2 ^ (7 - ((i - 1) % 8)))) % 2]

\* the unsigned value of a bit string
RECURSIVE BitsValue(_)
BitsValue(bits) ==
    IF bits = <<>> THEN 0
    ELSE 2 * BitsValue(SubSeq(bits, 1, Len(bits) - 1)) + bits[Len(bits)]

\* the bytes a BitWriter<_, BigEndian> has handed to its Vec after writing
\* these bits: whole bytes only, the bits of an unfinished byte stay in the
\* writer's queue and are gone when the writer is dropped
WrittenBytes(bits) ==
    [k \in 1..(Len(bits) \div 8) |-> BitsValue(SubSeq(bits, 8 * k - 7, 8 * k))]

\* bin_to_vec: the low `size` bits of value, most significant first
bin_to_vec(v, size) == [i \in 1..size |-> (v \div (2 ^ (size - i))) % 2]

\* the loop of construct_huffman_table without the shift of the code to the
\* next length in use
RECURSIVE huffman_codes_unshifted(_, _, _, _, _, _)
huffman_codes_unshifted(sizes, vals, size, code, last_size, acc) ==
    IF size > Len(sizes) THEN acc
    ELSE LET count == sizes[size]
         IN  IF count = 0
             THEN huffman_codes_unshifted(sizes, vals, size + 1, code, last_size, acc)
             ELSE LET k == Len(acc.table)
                      entries == [j \in 1..count |->
                                     [value |-> vals[k + j],
                                      bits |-> bin_to_vec(code + j - 1, size)]]
                  IN  huffman_codes_unshifted(sizes, vals, size + 1, code + count, size,
                          [table |-> acc.table \o entries,
                           last |-> <<[value |-> 255,
                                       bits |-> bin_to_vec(code + count, size)]>>])

\* construct_huffman_table, the loop over the code lengths in use; acc holds
\* the code table so far and the entry (255, next code) of the last length
RECURSIVE huffman_codes(_, _, _, _, _, _)
huffman_codes(sizes, vals, size, code, last_size, acc) ==
    IF size > Len(sizes) THEN acc
    ELSE LET count == sizes[size]
         IN  IF count = 0
             THEN huffman_codes(sizes, vals, size + 1, code, last_size, acc)
             ELSE LET first == (code * (2 ^ (size - last_size))) % 65536
                      k == Len(acc.table)
                      entries == [j \in 1..count |->
                                     [value |-> vals[k + j],
                                      bits |-> bin_to_vec(first + j - 1, size)]]
                  IN  huffman_codes(sizes, vals, size + 1, first + count, size,
                          [table |-> acc.table \o entries,
                           last |-> <<[value |-> 255,
                                       bits |-> bin_to_vec(first + count, size)]>>])

\* construct_huffman_table with bin_to_vec(value, size) for
\* bin_to_vec(code, size)
construct_huffman_table_of_value(sizes, vals) ==
    LET r == huffman_codes(sizes, vals, 1, 0, 0, [table |-> <<>>, last |-> <<>>])
    IN  [i \in 1..Len(r.table) |->
            [value |-> r.table[i].value,
             bits |-> bin_to_vec(r.table[i].value, Len(r.table[i].bits))]]
        \o r.last

\* construct_huffman_table: (symbol, code) pairs in the order of the values,
\* followed by the entry (255, code after the last one)
construct_huffman_table(sizes, vals) ==
    LET r == huffman_codes(sizes, vals, 1, 0, 0, [table |-> <<>>, last |-> <<>>])
    IN  r.table \o r.last

IsPrefix(a, b) == Len(a) <= Len(b) /\ SubSeq(b, 1, Len(a)) = a

\* bitstream_io::huffman::compile_read_tree: a decoding tree exists when no
\* code is a prefix of another (DuplicateLeaf, OrphanedLeaf) and every
\* branch ends in a leaf (MissingLeaf)
compile_read_tree(table) ==
    IF /\ \A i, j \in 1..Len(table) :
              i # j => ~IsPrefix(table[i].bits, table[j].bits)
       /\ Sum([i \in 1..Len(table) |-> 2 ^ (16 - Len(table[i].bits))]) = 65536
    THEN Ok(table)
    ELSE Err("HuffmanTree")

\* bitstream_io::huffman::compile_write_tree: the map from a symbol to the
\* code of its first entry
compile_write_tree(table) ==
    Ok([s \in {table[i].value : i \in 1..Len(table)} |->
          table[CHOOSE i \in 1..Len(table) :
                    /\ table[i].value = s
                    /\ \A j \in 1..(i - 1) : table[j].value # s].bits])

\* HuffmanRWTree::new
HuffmanRWTree_new(reader, writer) == [reader |-> reader, writer |-> writer]

\* impl Default for HuffmanRWTree: no reader, no writer
HuffmanRWTree_default == [reader |-> <<>>, writer |-> <<>>]

\* RWStream::new, with the loop variables of process_entropy_stream:
\* pos = bits consumed, out = bits written, last = value last returned,
\* left = mcus_left_until_restart, marks = marker_positions,
\* events = the values returned by the read calls so far
RWStream_new(restart_interval) ==
    [kind |-> "Ok", pos |-> 0, out |-> <<>>, last |-> 0, eob_run |-> 0,
     left |-> restart_interval, marks |-> {}, events |-> <<>>]

\* RWStream::read: copy n bits from the reader to the writer
RWStream_read(in, st, n) ==
    IF st.kind # "Ok" THEN st
    ELSE IF st.pos + n > Len(in) THEN [st EXCEPT !.kind = "Err"]
    ELSE LET bits == SubSeq(in, st.pos + 1, st.pos + n)
         IN  [st EXCEPT !.pos = @ + n,
                        !.out = @ \o bits,
                        !.last = BitsValue(bits),
                        !.events = Append(@, <<"read", n, BitsValue(bits)>>)]

\* RWStream::read_huffman_dc / read_huffman_ac: decode one symbol with the
\* reader of the tree and write it with the code of the writer of the tree
RWStream_read_huffman(in, st, tree) ==
    IF st.kind # "Ok" THEN st
    ELSE IF Len(tree.reader) = 0 THEN [st EXCEPT !.kind = "Panic"]
    ELSE LET fits(i) == /\ st.pos + Len(tree.reader[i].bits) <= Len(in)
                        /\ SubSeq(in, st.pos + 1, st.pos + Len(tree.reader[i].bits))
                               = tree.reader[i].bits
             found == {i \in 1..Len(tree.reader) : fits(i)}
         IN  IF found = {} THEN [st EXCEPT !.kind = "Err"]
             ELSE LET i == CHOOSE i \in found : \A j \in found : i <= j
                      symbol == tree.reader[i].value
                  IN  IF symbol \notin DOMAIN tree.writer
                      THEN [st EXCEPT !.kind = "Panic"]
                      ELSE [st EXCEPT !.pos = @ + Len(tree.reader[i].bits),
                                      !.out = @ \o tree.writer[symbol],
                                      !.last = symbol,
                                      !.events = Append(@, <<"huffman", symbol>>)]

\* RWStream::byte_align: the reader skips to the next byte boundary, the
\* writer pads its byte with 0 bits
RWStream_byte_align(st) ==
    IF st.kind # "Ok" THEN st
    ELSE [st EXCEPT !.pos = 8 * ((@ + 7) \div 8),
                    !.out = @ \o [i \in 1..((8 - (Len(@) % 8)) % 8) |-> 0]]

\* RWStream::writer_position: bytes handed to the Vec so far
RWStream_writer_position(st) == Len(st.out) \div 8

\* decode_block, the loop over the AC coefficients (F.1.2.2.1)
RECURSIVE decode_ac(_, _, _, _, _)
decode_ac(in, st, scan, ac_tree, index) ==
    IF st.kind # "Ok" \/ ~(index < scan.spectral_end) THEN st
    ELSE LET a == RWStream_read_huffman(in, st, ac_tree)
             r == a.last \div 16
             s == a.last % 16
         IN  IF a.kind # "Ok" THEN a
             ELSE IF s = 0
             THEN IF r = 15 THEN decode_ac(in, a, scan, ac_tree, index + 16)
                  ELSE LET b == [a EXCEPT !.eob_run = (2 ^ r) - 1]
                           c == RWStream_read(in, b, r)
                       IN  IF r = 0 THEN b
                           ELSE IF c.kind # "Ok" THEN c
                           ELSE [c EXCEPT !.eob_run = @ + c.last]
             ELSE IF index + r >= scan.spectral_end THEN a
             ELSE decode_ac(in, RWStream_read(in, a, s), scan, ac_tree, index + r + 1)

\* decode_block: one 8x8 block
decode_block(in, st, scan, dc_tree, ac_tree) ==
    LET a == RWStream_read_huffman(in, st, dc_tree)
        dc == IF scan.spectral_start # 0 THEN st
              ELSE IF a.kind # "Ok" \/ a.last = 0 THEN a
              ELSE IF a.last <= 11 THEN RWStream_read(in, a, a.last)
              ELSE [a EXCEPT !.kind = "Panic"]
        index == Max(scan.spectral_start, 1)
    IN  IF dc.kind # "Ok" THEN dc
        ELSE IF index < scan.spectral_end /\ dc.eob_run > 0
             THEN [dc EXCEPT !.eob_run = @ - 1]
        ELSE decode_ac(in, dc, scan, ac_tree, index)

\* strip_stream_padding from byte i on: 0xFF 0x00 becomes 0xFF; a 0xFF at
\* the very end has no successor to unwrap
RECURSIVE strip_from(_, _)
strip_from(in_data, i) ==
    IF i > Len(in_data) THEN Ok(<<>>)
    ELSE IF in_data[i] # 255
         THEN LET rest == strip_from(in_data, i + 1)
              IN  IF rest.kind # "Ok" THEN rest ELSE Ok(<<in_data[i]>> \o rest.val)
    ELSE IF i = Len(in_data) THEN Fault
    ELSE LET rest == strip_from(in_data, i + 2)
         IN  IF rest.kind # "Ok" THEN rest
             ELSE IF in_data[i + 1] # 0 THEN Ok(<<255, in_data[i + 1]>> \o rest.val)
             ELSE Ok(<<255>> \o rest.val)

strip_stream_padding(in_data) == strip_from(in_data, 1)

\* insert_data_padding: a 0x00 after every 0xFF whose offset is not a
\* recorded marker position
insert_data_padding(data, marker_positions) ==
    Flatten([i \in 1..Len(data) |->
                IF data[i] = 255 /\ (i - 1) \notin marker_positions
                THEN <<255, 0>> ELSE <<data[i]>>])

\* Jpeg::get_huffman_trees: the DC and AC tree of a scan component; the
\* arrays dc_trees and ac_trees have two slots
get_huffman_trees(jpeg, dc_table_index, ac_table_index) ==
    IF dc_table_index >= Len(jpeg.dc_trees) \/ ac_table_index >= Len(jpeg.ac_trees)
    THEN Fault
    ELSE Ok([dc_tree |-> jpeg.dc_trees[dc_table_index + 1],
             ac_tree |-> jpeg.ac_trees[ac_table_index + 1]])

\* get_components_info: for every scan component its frame component and
\* its trees
get_components_info(jpeg) ==
    LET n == Len(jpeg.scan.components)
        found(c) == {k \in 1..Len(jpeg.frame.components) :
                        jpeg.frame.components[k].component_id
                            = jpeg.scan.components[c].component_id}
        trees(c) == get_huffman_trees(jpeg, jpeg.scan.components[c].dc_table_index,
                                      jpeg.scan.components[c].ac_table_index)
    IN  IF \E c \in 1..n : found(c) = {} \/ trees(c).kind # "Ok" THEN Fault
        ELSE Ok([c \in 1..n |->
                   [component |-> jpeg.frame.components[
                                      CHOOSE k \in found(c) : \A j \in found(c) : k <= j],
                    dc_tree |-> trees(c).val.dc_tree,
                    ac_tree |-> trees(c).val.ac_tree]])

\* get_mcu_range that counts the whole MCUs of the picture only
get_mcu_range_whole(jpeg, info) ==
    LET hs == {info[c].component.h_factor : c \in 1..Len(info)}
        vs == {info[c].component.v_factor : c \in 1..Len(info)}
        h_max == CHOOSE h \in hs : \A x \in hs : x <= h
        v_max == CHOOSE v \in vs : \A x \in vs : x <= v
    IN  IF Len(info) = 0 THEN Fault
        ELSE IF h_max = 0 \/ v_max = 0 THEN Fault
        ELSE Ok([max_mcu_x |-> jpeg.frame.width \div (h_max * 8),
                 max_mcu_y |-> jpeg.frame.height \div (v_max * 8)])

\* get_mcu_range: MCU columns and rows
get_mcu_range(jpeg, info) ==
    LET hs == {info[c].component.h_factor : c \in 1..Len(info)}
        vs == {info[c].component.v_factor : c \in 1..Len(info)}
        h_max == CHOOSE h \in hs : \A x \in hs : x <= h
        v_max == CHOOSE v \in vs : \A x \in vs : x <= v
    IN  IF Len(info) = 0 THEN Fault
        ELSE IF h_max = 0 \/ v_max = 0 THEN Fault
        ELSE Ok([max_mcu_x |-> (jpeg.frame.width + h_max * 8 - 1) \div (h_max * 8),
                 max_mcu_y |-> (jpeg.frame.height + v_max * 8 - 1) \div (v_max * 8)])

\* process_entropy_stream, the blocks of one component in one MCU
RECURSIVE decode_blocks(_, _, _, _, _)
decode_blocks(in, st, scan, c, left) ==
    IF left = 0 \/ st.kind # "Ok" THEN st
    ELSE decode_blocks(in, decode_block(in, st, scan, c.dc_tree, c.ac_tree),
                       scan, c, left - 1)

\* process_entropy_stream, the components of one MCU from component i on
RECURSIVE decode_components(_, _, _, _, _)
decode_components(in, st, scan, info, i) ==
    IF i > Len(info) \/ st.kind # "Ok" THEN st
    ELSE decode_components(in,
             decode_blocks(in, st, scan, info[i],
                           info[i].component.v_factor * info[i].component.h_factor),
             scan, info, i + 1)

\* the restart step without marker_positions.push
restart_marker_unrecorded(in, st, restart_interval) ==
    LET aligned == RWStream_byte_align(st)
        header == RWStream_read(in, aligned, 8)
        code == RWStream_read(in, header, 8)
        at == IF st.left # 0 THEN st
              ELSE IF header.kind # "Ok" THEN header
              ELSE IF header.last # 255 THEN [header EXCEPT !.kind = "Panic"]
              ELSE IF code.kind # "Ok" THEN code
              ELSE [code EXCEPT !.eob_run = 0, !.left = restart_interval]
    IN  IF restart_interval = 0 \/ st.kind # "Ok" THEN st
        ELSE IF at.kind # "Ok" THEN at
        ELSE [at EXCEPT !.left = @ - 1]

\* process_entropy_stream, the restart marker before an MCU
restart_marker(in, st, restart_interval) ==
    LET aligned == RWStream_byte_align(st)
        marked == [aligned EXCEPT !.marks = @ \cup {RWStream_writer_position(aligned)}]
        header == RWStream_read(in, marked, 8)
        code == RWStream_read(in, header, 8)
        at == IF st.left # 0 THEN st
              ELSE IF header.kind # "Ok" THEN header
              ELSE IF header.last # 255 THEN [header EXCEPT !.kind = "Panic"]
              ELSE IF code.kind # "Ok" THEN code
              ELSE [code EXCEPT !.eob_run = 0, !.left = restart_interval]
    IN  IF restart_interval = 0 \/ st.kind # "Ok" THEN st
        ELSE IF at.kind # "Ok" THEN at
        ELSE [at EXCEPT !.left = @ - 1]

\* process_entropy_stream, the loop over the MCUs
RECURSIVE decode_mcus(_, _, _, _, _)
decode_mcus(in, st, jpeg, info, left) ==
    IF left = 0 \/ st.kind # "Ok" THEN st
    ELSE decode_mcus(in,
             decode_components(in, restart_marker(in, st, jpeg.restart_interval),
                               jpeg.scan, info, 1),
             jpeg, info, left - 1)

\* process_entropy_stream up to the end of its loops: the stream state
\* after the last MCU, or the failure that stopped it
transcode(jpeg, in_data) ==
    LET info == get_components_info(jpeg)
        range == get_mcu_range(jpeg, info.val)
        stripped == strip_stream_padding(in_data)
        rows == Cardinality({y \in 0..(range.val.max_mcu_y - 1) : y * 8 < jpeg.frame.height})
        cols == Cardinality({x \in 0..(range.val.max_mcu_x - 1) : x * 8 < jpeg.frame.width})
        start == RWStream_new(jpeg.restart_interval)
    IN  IF info.kind # "Ok" THEN [start EXCEPT !.kind = "Panic"]
        ELSE IF range.kind # "Ok" THEN [start EXCEPT !.kind = "Panic"]
        ELSE IF stripped.kind # "Ok" THEN [start EXCEPT !.kind = "Panic"]
        ELSE decode_mcus(ToBits(stripped.val), start, jpeg, info.val, rows * cols)

\* process_entropy_stream: the bytes of the Vec behind the writer, stuffed
process_entropy_stream(jpeg, in_data) ==
    LET st == transcode(jpeg, in_data)
    IN  IF st.kind = "Panic" THEN Fault
        ELSE IF st.kind = "Err" THEN Err("Bitstream")
        ELSE Ok(insert_data_padding(WrittenBytes(st.out), st.marks))

(***************************************************************************)
(* The segment processors (jpeg/jpeg.rs, processors/dht_reader.rs,         *)
(* processors/dht_writer.rs) and the secret codec (lib_secret.rs, main.rs).*)
(***************************************************************************)

\* impl Default for Jpeg, with the segments of read_file
Jpeg_new(segments) ==
    [segments |-> segments,
     frame |-> SofData_default,
     scan |-> SosData_default,
     restart_interval |-> 0,
     dc_trees |-> <<HuffmanRWTree_default, HuffmanRWTree_default>>,
     ac_trees |-> <<HuffmanRWTree_default, HuffmanRWTree_default>>]

\* Jpeg::read_file / read_segments on the bytes of the file
Jpeg_read_segments(bytes) ==
    LET sections == scan_sections(bytes)
    IN  IF sections.kind # "Ok" THEN Fault ELSE Ok(Jpeg_new(sections.val))

\* Jpeg::process_segment, before the processor is called: frame, scan and
\* restart interval follow the segment
Jpeg_process_segment(jpeg, segment) ==
    LET k == segment.marker.kind
        sof == SofData_try_from(segment.data)
        sos == SosData_try_from(segment.data)
        dri == DriData_try_from(segment.data)
    IN  IF k \in {"SOF0", "SOF1", "SOF2"}
        THEN IF sof.kind # "Ok" THEN Fault ELSE Ok([jpeg EXCEPT !.frame = sof.val])
        ELSE IF k = "SOS"
        THEN IF sos.kind # "Ok" THEN Fault ELSE Ok([jpeg EXCEPT !.scan = sos.val])
        ELSE IF k = "DRI"
        THEN IF dri.kind # "Ok" THEN Fault
             ELSE Ok([jpeg EXCEPT !.restart_interval = dri.val.count])
        ELSE Ok(jpeg)

\* Jpeg::process_segments with a DhtReader: the tables of the DHT segments
\* in file order
RECURSIVE DhtReader_tables(_)
DhtReader_tables(segments) ==
    IF segments = <<>> THEN Ok(<<>>)
    ELSE LET here == IF Head(segments).marker.kind = "DHT"
                     THEN DhtData_try_from(Head(segments).data)
                     ELSE Ok(<<>>)
             rest == DhtReader_tables(Tail(segments))
         IN  IF here.kind # "Ok" THEN Fault
             ELSE IF rest.kind # "Ok" THEN Fault
             ELSE Ok(here.val \o rest.val)

\* set_huffman_tree that keeps the tree a slot already holds
set_huffman_tree_first(jpeg, table_class, table_index, tree) ==
    IF table_index >= Len(jpeg.dc_trees) THEN Fault
    ELSE IF table_class = 0
         THEN IF jpeg.dc_trees[table_index + 1] # HuffmanRWTree_default THEN Ok(jpeg)
              ELSE Ok([jpeg EXCEPT !.dc_trees[table_index + 1] = tree])
         ELSE IF jpeg.ac_trees[table_index + 1] # HuffmanRWTree_default THEN Ok(jpeg)
              ELSE Ok([jpeg EXCEPT !.ac_trees[table_index + 1] = tree])

\* Jpeg::set_huffman_tree: class 0 is DC, any other class AC; two slots each
set_huffman_tree(jpeg, table_class, table_index, tree) ==
    IF table_index >= Len(jpeg.dc_trees) THEN Fault
    ELSE IF table_class = 0
         THEN Ok([jpeg EXCEPT !.dc_trees[table_index + 1] = tree])
         ELSE Ok([jpeg EXCEPT !.ac_trees[table_index + 1] = tree])

\* The outcome of one step of the writer
Step(kind, err, jpeg, table_index, tables, bytes) ==
    [kind |-> kind, err |-> err, jpeg |-> jpeg, table_index |-> table_index,
     tables |-> tables, bytes |-> bytes]

\* DhtWriter::process_segment, the loop over the tables of a DHT segment:
\* the reader of a tree decodes with the values found in the file, the
\* callback replaces the values, the writer of the tree encodes with them
RECURSIVE DhtWriter_tables(_, _, _, _, _)
DhtWriter_tables(tables, done, jpeg, table_values, table_index) ==
    IF tables = <<>> THEN Step("Ok", "", jpeg, table_index, done, <<>>)
    ELSE LET table == Head(tables)
             stop(kind, err, index) == Step(kind, err, jpeg, index, done, <<>>)
             \* jpeg.set_huffman_tree(table_class, table_index, rw_tree)
             store(set, replaced) ==
                 IF set.kind # "Ok" THEN stop("Panic", "", table_index + 1)
                 ELSE DhtWriter_tables(Tail(tables), Append(done, replaced), set.val,
                                       table_values, table_index + 1)
             \* compile_write_tree of the replaced table, HuffmanRWTree::new
             rewrite(read_tree, replaced) ==
                 IF Len(replaced.values) < Sum(replaced.sizes)
                 THEN stop("Panic", "", table_index)
                 ELSE store(set_huffman_tree(
                                jpeg, table.table_class, table.table_index,
                                HuffmanRWTree_new(
                                    read_tree.val,
                                    compile_write_tree(construct_huffman_table(
                                        replaced.sizes, replaced.values)).val)),
                            replaced)
             \* (self.callback)(table)
             callback(read_tree) ==
                 IF read_tree.kind # "Ok" THEN stop("Err", "HuffmanTree", table_index)
                 ELSE IF table_index >= Len(table_values)
                 THEN stop("Panic", "", table_index)
                 ELSE rewrite(read_tree,
                              [table EXCEPT !.values = table_values[table_index + 1]])
         IN  callback(compile_read_tree(
                          construct_huffman_table(table.sizes, table.values)))

\* impl ProcessSegmentMut for DhtWriter: the segment is rewritten (DHT: new
\* values; SOS: transcoded entropy stream) and written at once
DhtWriter_process_segment(jpeg, segment, table_values, table_index) ==
    LET k == segment.marker.kind
        stop(kind, err) == Step(kind, err, jpeg, table_index, <<>>, <<>>)
        \* Jpeg::write_segment(&mut self.writer, &segment)
        written(j, index, w) ==
            IF w.kind # "Ok" THEN Step("Panic", "", j, index, <<>>, <<>>)
            ELSE Step("Ok", "", j, index, <<>>, w.val)
        out(j, index, data) ==
            written(j, index, write_segment([segment EXCEPT !.data = data]))
        from_tables(dht) ==
            IF dht.kind # "Ok" THEN dht
            ELSE out(dht.jpeg, dht.table_index, DhtData_to_vec(dht.tables))
        from_dht(dht_data) ==
            IF dht_data.kind # "Ok" THEN stop("Panic", "")
            ELSE from_tables(DhtWriter_tables(dht_data.val, <<>>, jpeg, table_values,
                                              table_index))
        from_scan(scanned) == out(scanned, table_index, SosData_to_vec(scanned.scan))
        from_stream(stream) ==
            IF stream.kind = "Panic" THEN stop("Panic", "")
            ELSE IF stream.kind = "Err" THEN stop("Err", stream.val)
            ELSE from_scan([jpeg EXCEPT !.scan.image_data = stream.val])
    IN  IF k = "DHT" THEN from_dht(DhtData_try_from(segment.data))
        ELSE IF k = "SOS"
        THEN IF jpeg.scan.spectral_start # 0 \/ jpeg.scan.spectral_end # 64
             THEN stop("Err", "UnsupportedScan")
             ELSE from_stream(process_entropy_stream(jpeg, jpeg.scan.image_data))
        ELSE out(jpeg, table_index, segment.data)

\* Jpeg::process_segments_mut, one segment: Jpeg::process_segment followed by
\* the DhtWriter
process_segment_mut(jpeg, segment, table_values, table_index) ==
    LET process(updated) ==
            IF updated.kind # "Ok" THEN Step("Panic", "", jpeg, table_index, <<>>, <<>>)
            ELSE DhtWriter_process_segment(updated.val, segment, table_values,
                                           table_index)
    IN  process(Jpeg_process_segment(jpeg, segment))

\* encode_secret: the magic prefix 0xBE 0xEF followed by the secret
encode_secret(secret) == <<190, 239>> \o secret

\* BigUint::from_bytes_be
RECURSIVE from_bytes_be(_)
from_bytes_be(bytes) ==
    IF bytes = <<>> THEN 0
    ELSE 256 * from_bytes_be(SubSeq(bytes, 1, Len(bytes) - 1)) + bytes[Len(bytes)]

\* BigUint::to_bytes_be: no leading zero byte, and one zero byte for 0
RECURSIVE to_bytes_be(_)
to_bytes_be(n) ==
    IF n < 256 THEN <<n>> ELSE Append(to_bytes_be(n \div 256), n % 256)

\* Option<Vec<u8>> returned by read_secret
NoSecret == [some |-> FALSE, data |-> <<>>]

Secret(data) == [some |-> TRUE, data |-> data]

\* read_secret / read_secret_from_jpeg on the bytes of a file
read_secret(bytes) ==
    LET from_data(data) ==
            IF Len(data) <= 2 \/ data[1] # 190 \/ data[2] # 239 THEN Ok(NoSecret)
            ELSE Ok(Secret(Slice(data, 2, Len(data))))
        from_ns(ns) ==
            IF ns.kind # "Some" THEN Fault
            ELSE from_data(to_bytes_be(NS2_to_biguint(ns.digits)))
        from_tables(tables) ==
            IF tables.kind # "Ok" THEN Fault
            ELSE from_ns(NS2_read_values(
                             [t \in 1..Len(tables.val) |-> tables.val[t].sizes],
                             [t \in 1..Len(tables.val) |-> tables.val[t].values]))
        from_jpeg(jpeg) ==
            IF jpeg.kind # "Ok" THEN Fault
            ELSE from_tables(DhtReader_tables(jpeg.val.segments))
    IN  from_jpeg(Jpeg_read_segments(bytes))

(***************************************************************************)
(* State.  The number systems are exercised on their own (level, input,    *)
(* value, values, pc, ns, big, buf, back, permutation, again); the write and read *)
(* paths run on a file (reader, secret, stage, jpeg, table_sizes,          *)
(* table_values, digits, table_index, cursor, writer, created, err,        *)
(* result); the paired bit stream runs on its own, one reader or writer    *)
(* call at a time (rw).                                                    *)
(***************************************************************************)
VARIABLES level, input, value, values, pc, ns, big, buf, back, permutation, again

VARIABLES reader, secret, stage, jpeg, table_sizes, table_values, digits,
          table_index, cursor, writer, created, err, result

nsvars == <<level, input, value, values, pc, ns, big, buf, back, permutation,
            again>>

jvars == <<reader, secret, stage, jpeg, table_sizes, table_values, digits,
           table_index, cursor, writer, created, err, result>>

\* the paired bit stream run call by call
VARIABLE rw

vars == <<nsvars, jvars, rw>>

\* no paired stream: the number systems or the file paths run
RwOff == [pc |-> "off"]

\* Option<Vec<u8>> not yet returned
NotRun == [kind |-> "NotRun", val |-> <<>>]

\* the file state before write_secret or read_secret is entered
JStart ==
    /\ stage = "start"
    /\ jpeg = Jpeg_new(<<>>)
    /\ table_sizes = <<>>
    /\ table_values = <<>>
    /\ digits = <<>>
    /\ table_index = 0
    /\ cursor = 1
    /\ writer = <<>>
    /\ created = FALSE
    /\ err = ""
    /\ result = NotRun

\* no file at all: the number systems run on their own
JIdle ==
    /\ reader = <<>>
    /\ secret = <<>>
    /\ JStart

\* the i-th byte of the pool the value buffers are drawn from
ByteOf(i) == (37 * i) % 256

Sizes == 0..MaxSize

\* size lists with at most two entries, profiles with at most two groups
SizeLists == UNION {[1..k -> Sizes] : k \in 0..2}

\* size lists with three entries, for the one-level runs
LongSizeLists == [1..3 -> Sizes]

Profiles == UNION {[1..k -> SizeLists] : k \in 0..2}

\* the integers tried for an input of capacity max: a low and a high window
ValuesFor(max) ==
    (0..Min(MaxValue, max + 1)) \cup (Max(0, max - MaxValue)..(max + 1))

\* all arrangements of n distinct bytes
Arrangements(n) ==
    {s \in [1..n -> {ByteOf(i) : i \in 1..n}] :
        \A i, j \in 1..n : i # j => s[i] # s[j]}

\* a buffer of n distinct bytes, ascending pool order (t = 1) or reversed (t = 2)
Buffer(n, t) == [i \in 1..n |-> IF t = 1 THEN ByteOf(i) ELSE ByteOf(n + 1 - i)]

\* MAX(S) as the spec states it: the product of n! over the entries n >= 2
RECURSIVE SpecMaxList(_)
SpecMaxList(s) ==
    IF s = <<>> THEN 1
    ELSE (IF Head(s) >= 2 THEN factorial(Head(s)) ELSE 1) * SpecMaxList(Tail(s))

RECURSIVE SpecMaxProfile(_)
SpecMaxProfile(S) ==
    IF S = <<>> THEN 1 ELSE SpecMaxList(Head(S)) * SpecMaxProfile(Tail(S))

SpecMax(l, in) ==
    IF l = 0 THEN factorial(in)
    ELSE IF l = 1 THEN SpecMaxList(in)
    ELSE SpecMaxProfile(in)

NsIdle ==
    /\ pc = "start"
    /\ ns = None
    /\ big = -1
    /\ buf = BufOk(<<>>)
    /\ back = None
    /\ permutation = <<>>
    /\ again = BufOk(<<>>)

InitNS0 ==
    /\ level = 0
    /\ input \in 1..(MaxSize + 1)
    /\ value \in 0..(factorial(input) + 1)
    /\ values \in Arrangements(input)
    /\ NsIdle

InitNS1 ==
    /\ level = 1
    /\ input \in SizeLists \cup LongSizeLists
    /\ value \in ValuesFor(SpecMaxList(input))
    /\ values \in {Buffer(Sum(input), t) : t \in 1..2}
    /\ NsIdle

InitNS2 ==
    /\ level = 2
    /\ input \in Profiles
    /\ value \in ValuesFor(SpecMaxProfile(input))
    /\ values \in {[g \in 1..Len(input) |-> Buffer(Sum(input[g]), t)] : t \in 1..2}
    /\ NsIdle

InitNS == (InitNS0 \/ InitNS1 \/ InitNS2) /\ JIdle /\ rw = RwOff

\* TryFromInput::try_from_input at the level of the input
try_from_input(l, v, in) ==
    IF l = 0 THEN NS0_try_from_input(v, in)
    ELSE IF l = 1 THEN NS1_try_from_input(v, in)
    ELSE NS2_try_from_input(v, in)

\* BigUint::from(ns)
to_biguint(l, d) ==
    IF l = 0 THEN NS0_to_biguint(d)
    ELSE IF l = 1 THEN NS1_to_biguint(d)
    ELSE NS2_to_biguint(d)

permute_values(l, d, v) ==
    IF l = 0 THEN NS0_permute_values(d, v)
    ELSE IF l = 1 THEN NS1_permute_values(d, v)
    ELSE NS2_permute_values(d, v)

read_values(l, in, v) ==
    IF l = 0 THEN NS0_read_values(v)
    ELSE IF l = 1 THEN NS1_read_values(in, v)
    ELSE NS2_read_values(in, v)

TryFromInput ==
    /\ pc = "start"
    /\ ns' = try_from_input(level, value, input)
    /\ pc' = IF ns'.kind = "Some" THEN "encoded"
             ELSE IF ns'.kind = "None" THEN "none" ELSE "panic"
    /\ UNCHANGED <<level, input, value, values, big, buf, back, permutation>>
    /\ UNCHANGED <<again, jvars, rw>>

ToBigUint ==
    /\ pc = "encoded"
    /\ big' = to_biguint(level, ns.digits)
    /\ pc' = "big"
    /\ UNCHANGED <<level, input, value, values, ns, buf, back, permutation>>
    /\ UNCHANGED <<again, jvars, rw>>

PermuteValues ==
    /\ pc = "encoded"
    /\ buf' = permute_values(level, ns.digits, values)
    /\ pc' = IF buf'.kind = "Ok" THEN "permuted" ELSE "panic"
    /\ UNCHANGED <<level, input, value, values, ns, big, back, permutation>>
    /\ UNCHANGED <<again, jvars, rw>>

ReadValues ==
    /\ pc = "permuted"
    /\ back' = read_values(level, input, buf.values)
    /\ big' = IF back'.kind = "Some" THEN to_biguint(level, back'.digits) ELSE -1
    /\ pc' = IF back'.kind = "Some" THEN "read" ELSE "panic"
    /\ UNCHANGED <<level, input, value, values, ns, buf, permutation>>
    /\ UNCHANGED <<again, jvars, rw>>

\* read_values on the drawn buffer itself, which no permute_values produced
ReadInput ==
    /\ pc = "start"
    /\ back' = read_values(level, input, values)
    /\ big' = IF back'.kind = "Some" THEN to_biguint(level, back'.digits) ELSE -1
    /\ pc' = IF back'.kind = "Some" THEN "scanned" ELSE "panic_scan"
    /\ UNCHANGED <<level, input, value, values, ns, buf, permutation>>
    /\ UNCHANGED <<again, jvars, rw>>

\* NS0::to_permutation of the digits last obtained
ToPermutation ==
    /\ level = 0
    /\ pc \in {"encoded", "scanned"}
    /\ permutation' = NS0_to_permutation(IF pc = "encoded" THEN ns.digits ELSE back.digits)
    /\ pc' = IF pc = "encoded" THEN "perm" ELSE "reperm"
    /\ UNCHANGED <<level, input, value, values, ns, big, buf, back>>
    /\ UNCHANGED <<again, jvars, rw>>

FromPermutation ==
    /\ level = 0
    /\ pc = "perm"
    /\ back' = NS0_from_permutation(permutation)
    /\ pc' = IF back'.kind = "Some" THEN "unperm" ELSE "panic"
    /\ UNCHANGED <<level, input, value, values, ns, big, buf, permutation>>
    /\ UNCHANGED <<again, jvars, rw>>

\* permute_values applied a second time to the same buffer
PermuteValuesAgain ==
    /\ pc = "permuted"
    /\ again' = permute_values(level, ns.digits, buf.values)
    /\ pc' = IF again'.kind = "Ok" THEN "repermuted" ELSE "panic_again"
    /\ UNCHANGED <<level, input, value, values, ns, big, buf, back, permutation>>
    /\ UNCHANGED <<jvars, rw>>

\* FNS::from(value).to_permutation(size); the sizes that reach it are those
\* gt_one keeps
LegacyToPermutation ==
    /\ level = 0
    /\ input >= 2
    /\ pc = "start"
    /\ \E p \in {FNS_to_permutation(FNS_from(value), input)} :
           /\ permutation' = p.values
           /\ pc' = IF p.kind = "Ok" THEN "legacy" ELSE "panic_legacy"
    /\ UNCHANGED <<level, input, value, values, ns, big, buf, back>>
    /\ UNCHANGED <<again, jvars, rw>>

\* the buffers that repeat a byte: one byte of v overwritten by another
Duplicated(v) ==
    {[v EXCEPT ![i] = v[j]] : i \in 1..Len(v), j \in 1..Len(v)} \ {v}

\* NS0::permute_values on a buffer that holds a byte twice
PermuteDuplicated ==
    /\ level = 0
    /\ pc = "encoded"
    /\ \E v \in Duplicated(values) :
           /\ buf' = BufOk(v)
           /\ again' = NS0_permute_values(ns.digits, v)
    /\ pc' = "dup_permuted"
    /\ UNCHANGED <<level, input, value, values, ns, big, back, permutation>>
    /\ UNCHANGED <<jvars, rw>>

\* NS0::read_values on a buffer that holds a byte twice
ReadDuplicated ==
    /\ level = 0
    /\ pc = "start"
    /\ \E v \in Duplicated(values) :
           /\ buf' = BufOk(v)
           /\ back' = NS0_read_values(v)
    /\ pc' = "dup_read"
    /\ UNCHANGED <<level, input, value, values, ns, big, permutation>>
    /\ UNCHANGED <<again, jvars, rw>>

NextNS ==
    \/ TryFromInput
    \/ ToBigUint
    \/ PermuteValues
    \/ ReadValues
    \/ ReadInput
    \/ ToPermutation
    \/ FromPermutation
    \/ LegacyToPermutation
    \/ PermuteValuesAgain
    \/ PermuteDuplicated
    \/ ReadDuplicated

SpecNS == InitNS /\ [][NextNS]_vars

\* Input files: small JPEG files, byte by byte (SOI, APP0, DQT, SOF, DHT,
\* optional DRI, SOS with its entropy stream, EOI).

GrayHalfByte ==
    <<255, 216, 255, 224, 0, 4, 74, 70, 255, 219, 0, 5, 0, 16, 11, 255, 192,
      0, 11, 8, 0, 8, 0, 8, 1, 1, 17, 0, 255, 196, 0, 50, 0, 0, 0, 7, 0, 0,
      0, 0, 0, 0, 0, 0, 0, 0, 0, 0, 0, 0, 1, 2, 3, 4, 5, 6, 16, 0, 0, 7, 0,
      0, 0, 0, 0, 0, 0, 0, 0, 0, 0, 0, 0, 0, 1, 2, 17, 240, 33, 8, 255, 218,
      0, 8, 1, 1, 0, 0, 63, 0, 81, 143, 255, 217>>

GrayWholeBytes ==
    <<255, 216, 255, 224, 0, 4, 74, 70, 255, 219, 0, 5, 0, 16, 11, 255, 192,
      0, 11, 8, 0, 8, 0, 8, 1, 1, 17, 0, 255, 196, 0, 50, 0, 0, 0, 7, 0, 0,
      0, 0, 0, 0, 0, 0, 0, 0, 0, 0, 0, 0, 1, 2, 3, 4, 5, 6, 16, 0, 0, 7, 0,
      0, 0, 0, 0, 0, 0, 0, 0, 0, 0, 0, 0, 0, 1, 2, 17, 240, 33, 8, 255, 218,
      0, 8, 1, 1, 0, 0, 63, 0, 51, 80, 255, 217>>

GrayZeroRun ==
    <<255, 216, 255, 224, 0, 4, 74, 70, 255, 219, 0, 5, 0, 16, 11, 255, 192,
      0, 11, 8, 0, 8, 0, 8, 1, 1, 17, 0, 255, 196, 0, 50, 0, 0, 0, 7, 0, 0,
      0, 0, 0, 0, 0, 0, 0, 0, 0, 0, 0, 0, 1, 2, 3, 4, 5, 6, 16, 0, 0, 7, 0,
      0, 0, 0, 0, 0, 0, 0, 0, 0, 0, 0, 0, 0, 1, 2, 17, 240, 33, 8, 255, 218,
      0, 8, 1, 1, 0, 0, 63, 0, 110, 82, 199, 255, 217>>

GrayStuffed ==
    <<255, 216, 255, 224, 0, 4, 74, 70, 255, 219, 0, 5, 0, 16, 11, 255, 192,
      0, 11, 8, 0, 8, 0, 8, 1, 1, 17, 0, 255, 196, 0, 50, 0, 0, 0, 7, 0, 0,
      0, 0, 0, 0, 0, 0, 0, 0, 0, 0, 0, 0, 1, 2, 3, 4, 5, 6, 16, 0, 0, 7, 0,
      0, 0, 0, 0, 0, 0, 0, 0, 0, 0, 0, 0, 0, 1, 2, 17, 240, 33, 8, 255, 218,
      0, 8, 1, 1, 0, 0, 63, 0, 78, 255, 0, 31, 255, 217>>

FourTables ==
    <<255, 216, 255, 224, 0, 4, 74, 70, 255, 192, 0, 14, 8, 0, 8, 0, 8, 2, 1,
      17, 0, 2, 17, 0, 255, 196, 0, 50, 0, 0, 1, 5, 1, 0, 0, 0, 0, 0, 0, 0,
      0, 0, 0, 0, 0, 0, 1, 2, 3, 4, 5, 6, 16, 0, 0, 7, 0, 0, 0, 0, 0, 0, 0,
      0, 0, 0, 0, 0, 0, 0, 1, 2, 17, 240, 33, 8, 255, 196, 0, 44, 1, 0, 3, 0,
      0, 0, 0, 0, 0, 0, 0, 0, 0, 0, 0, 0, 0, 0, 1, 2, 17, 0, 2, 3, 0, 0, 0,
      0, 0, 0, 0, 0, 0, 0, 0, 0, 0, 0, 1, 17, 2, 240, 255, 218, 0, 10, 2, 1,
      0, 2, 17, 0, 63, 0, 80, 65, 255, 217>>

FourTablesWhole ==
    <<255, 216, 255, 224, 0, 4, 74, 70, 255, 192, 0, 14, 8, 0, 8, 0, 8, 2, 1,
      17, 0, 2, 17, 0, 255, 196, 0, 50, 0, 0, 1, 5, 1, 0, 0, 0, 0, 0, 0, 0,
      0, 0, 0, 0, 0, 0, 1, 2, 3, 4, 5, 6, 16, 0, 0, 7, 0, 0, 0, 0, 0, 0, 0,
      0, 0, 0, 0, 0, 0, 0, 1, 2, 17, 240, 33, 8, 255, 196, 0, 44, 1, 0, 3, 0,
      0, 0, 0, 0, 0, 0, 0, 0, 0, 0, 0, 0, 0, 0, 1, 2, 17, 0, 2, 3, 0, 0, 0,
      0, 0, 0, 0, 0, 0, 0, 0, 0, 0, 0, 1, 17, 2, 240, 255, 218, 0, 10, 2, 1,
      0, 2, 17, 0, 63, 0, 67, 12, 255, 217>>

SmallTables ==
    <<255, 216, 255, 224, 0, 4, 74, 70, 255, 219, 0, 5, 0, 16, 11, 255, 192,
      0, 11, 8, 0, 8, 0, 8, 1, 1, 17, 0, 255, 196, 0, 42, 0, 0, 3, 0, 0, 0,
      0, 0, 0, 0, 0, 0, 0, 0, 0, 0, 0, 0, 1, 2, 16, 0, 3, 0, 0, 0, 0, 0, 0,
      0, 0, 0, 0, 0, 0, 0, 0, 0, 1, 17, 255, 218, 0, 8, 1, 1, 0, 0, 63, 0,
      104, 255, 217>>

MediumTables ==
    <<255, 216, 255, 224, 0, 4, 74, 70, 255, 219, 0, 5, 0, 16, 11, 255, 192,
      0, 11, 8, 0, 8, 0, 8, 1, 1, 17, 0, 255, 196, 0, 48, 0, 0, 0, 7, 0, 0,
      0, 0, 0, 0, 0, 0, 0, 0, 0, 0, 0, 0, 1, 2, 3, 4, 5, 6, 16, 0, 2, 3, 0,
      0, 0, 0, 0, 0, 0, 0, 0, 0, 0, 0, 0, 0, 1, 17, 2, 240, 255, 218, 0, 8,
      1, 1, 0, 0, 63, 0, 53, 39, 255, 217>>

LeadingFlatTable ==
    <<255, 216, 255, 224, 0, 4, 74, 70, 255, 219, 0, 5, 0, 16, 11, 255, 192,
      0, 11, 8, 0, 8, 0, 8, 1, 1, 17, 0, 255, 196, 0, 69, 0, 1, 1, 0, 0, 0,
      0, 0, 0, 0, 0, 0, 0, 0, 0, 0, 0, 0, 1, 16, 0, 0, 7, 0, 0, 0, 0, 0, 0,
      0, 0, 0, 0, 0, 0, 0, 0, 1, 2, 17, 240, 33, 8, 1, 0, 0, 7, 0, 0, 0, 0,
      0, 0, 0, 0, 0, 0, 0, 0, 0, 0, 1, 2, 3, 4, 5, 6, 255, 218, 0, 8, 1, 1,
      0, 0, 63, 0, 164, 63, 255, 217>>

LeadingLadderTable ==
    <<255, 216, 255, 224, 0, 4, 74, 70, 255, 219, 0, 5, 0, 16, 11, 255, 192,
      0, 11, 8, 0, 8, 0, 8, 1, 1, 17, 0, 255, 196, 0, 74, 0, 1, 1, 1, 1, 1,
      1, 1, 0, 0, 0, 0, 0, 0, 0, 0, 0, 0, 1, 2, 3, 4, 5, 6, 16, 0, 0, 7, 0,
      0, 0, 0, 0, 0, 0, 0, 0, 0, 0, 0, 0, 0, 1, 2, 17, 240, 33, 8, 1, 0, 0,
      7, 0, 0, 0, 0, 0, 0, 0, 0, 0, 0, 0, 0, 0, 0, 1, 2, 3, 4, 5, 6, 255,
      218, 0, 8, 1, 1, 0, 0, 63, 0, 209, 15, 255, 217>>

Progressive ==
    <<255, 216, 255, 224, 0, 4, 74, 70, 255, 219, 0, 5, 0, 16, 11, 255, 194,
      0, 11, 8, 0, 8, 0, 8, 1, 1, 17, 0, 255, 196, 0, 50, 0, 0, 0, 7, 0, 0,
      0, 0, 0, 0, 0, 0, 0, 0, 0, 0, 0, 0, 1, 2, 3, 4, 5, 6, 16, 0, 0, 7, 0,
      0, 0, 0, 0, 0, 0, 0, 0, 0, 0, 0, 0, 0, 1, 2, 17, 240, 33, 8, 255, 218,
      0, 8, 1, 1, 0, 0, 0, 0, 63, 255, 217>>

Truncated ==
    <<255, 216, 255, 224, 0, 4, 74, 70, 255, 219, 0, 5, 0, 16, 11, 255, 192,
      0, 11, 8, 0, 8, 0, 8, 1, 1, 17, 0, 255, 196, 0, 50, 0, 0, 0, 7, 0, 0,
      0, 0, 0, 0, 0, 0, 0, 0, 0, 0, 0, 0, 1, 2, 3, 4, 5, 6, 16, 0, 0, 7, 0,
      0, 0, 0, 0, 0, 0, 0, 0, 0, 0, 0, 0, 0, 1, 2, 17, 240, 33, 8, 255, 218,
      0, 8, 1, 1, 0, 0, 63, 0, 10, 255, 217>>

Restart ==
    <<255, 216, 255, 224, 0, 4, 74, 70, 255, 219, 0, 5, 0, 16, 11, 255, 192,
      0, 11, 8, 0, 8, 0, 16, 1, 1, 17, 0, 255, 196, 0, 50, 0, 0, 0, 7, 0, 0,
      0, 0, 0, 0, 0, 0, 0, 0, 0, 0, 0, 0, 1, 2, 3, 4, 5, 6, 16, 0, 0, 7, 0,
      0, 0, 0, 0, 0, 0, 0, 0, 0, 0, 0, 0, 0, 1, 2, 17, 240, 33, 8, 255, 221,
      0, 4, 0, 1, 255, 218, 0, 8, 1, 1, 0, 0, 63, 0, 33, 255, 208, 74, 135,
      255, 217>>

RestartStuffed ==
    <<255, 216, 255, 224, 0, 4, 74, 70, 255, 219, 0, 5, 0, 16, 11, 255, 192,
      0, 11, 8, 0, 8, 0, 16, 1, 1, 17, 0, 255, 196, 0, 50, 0, 0, 0, 7, 0, 0,
      0, 0, 0, 0, 0, 0, 0, 0, 0, 0, 0, 0, 1, 2, 3, 4, 5, 6, 16, 0, 0, 7, 0,
      0, 0, 0, 0, 0, 0, 0, 0, 0, 0, 0, 0, 0, 1, 2, 17, 240, 33, 8, 255, 221,
      0, 4, 0, 1, 255, 218, 0, 8, 1, 1, 0, 0, 63, 0, 33, 255, 208, 78, 255,
      0, 31, 255, 217>>

RestartNoMarker ==
    <<255, 216, 255, 224, 0, 4, 74, 70, 255, 219, 0, 5, 0, 16, 11, 255, 192,
      0, 11, 8, 0, 8, 0, 16, 1, 1, 17, 0, 255, 196, 0, 50, 0, 0, 0, 7, 0, 0,
      0, 0, 0, 0, 0, 0, 0, 0, 0, 0, 0, 0, 1, 2, 3, 4, 5, 6, 16, 0, 0, 7, 0,
      0, 0, 0, 0, 0, 0, 0, 0, 0, 0, 0, 0, 0, 1, 2, 17, 240, 33, 8, 255, 221,
      0, 4, 0, 1, 255, 218, 0, 8, 1, 1, 0, 0, 63, 0, 33, 255, 0, 65, 74, 135,
      255, 217>>

RestartEach ==
    <<255, 216, 255, 224, 0, 4, 74, 70, 255, 219, 0, 5, 0, 16, 11, 255, 192,
      0, 11, 8, 0, 8, 0, 24, 1, 1, 17, 0, 255, 196, 0, 50, 0, 0, 0, 7, 0, 0,
      0, 0, 0, 0, 0, 0, 0, 0, 0, 0, 0, 0, 1, 2, 3, 4, 5, 6, 16, 0, 0, 7, 0,
      0, 0, 0, 0, 0, 0, 0, 0, 0, 0, 0, 0, 0, 1, 2, 17, 240, 33, 8, 255, 221,
      0, 4, 0, 1, 255, 218, 0, 8, 1, 1, 0, 0, 63, 0, 33, 255, 208, 74, 135,
      255, 209, 116, 135, 255, 217>>

RestartPairs ==
    <<255, 216, 255, 224, 0, 4, 74, 70, 255, 219, 0, 5, 0, 16, 11, 255, 192,
      0, 11, 8, 0, 8, 0, 24, 1, 1, 17, 0, 255, 196, 0, 50, 0, 0, 0, 7, 0, 0,
      0, 0, 0, 0, 0, 0, 0, 0, 0, 0, 0, 0, 1, 2, 3, 4, 5, 6, 16, 0, 0, 7, 0,
      0, 0, 0, 0, 0, 0, 0, 0, 0, 0, 0, 0, 0, 1, 2, 17, 240, 33, 8, 255, 221,
      0, 4, 0, 2, 255, 218, 0, 8, 1, 1, 0, 0, 63, 0, 32, 149, 15, 255, 208,
      116, 135, 255, 217>>

TableIndexTwo ==
    <<255, 216, 255, 224, 0, 4, 74, 70, 255, 219, 0, 5, 0, 16, 11, 255, 193,
      0, 11, 8, 0, 8, 0, 8, 1, 1, 17, 0, 255, 196, 0, 50, 2, 0, 0, 7, 0, 0,
      0, 0, 0, 0, 0, 0, 0, 0, 0, 0, 0, 0, 1, 2, 3, 4, 5, 6, 16, 0, 0, 7, 0,
      0, 0, 0, 0, 0, 0, 0, 0, 0, 0, 0, 0, 0, 1, 2, 17, 240, 33, 8, 255, 218,
      0, 8, 1, 1, 32, 0, 63, 0, 51, 80, 255, 217>>

GrayPartial ==
    <<255, 216, 255, 224, 0, 4, 74, 70, 255, 219, 0, 5, 0, 16, 11, 255, 192,
      0, 11, 8, 0, 8, 0, 12, 1, 1, 17, 0, 255, 196, 0, 50, 0, 0, 0, 7, 0, 0,
      0, 0, 0, 0, 0, 0, 0, 0, 0, 0, 0, 0, 1, 2, 3, 4, 5, 6, 16, 0, 0, 7, 0,
      0, 0, 0, 0, 0, 0, 0, 0, 0, 0, 0, 0, 0, 1, 2, 17, 240, 33, 8, 255, 218,
      0, 8, 1, 1, 0, 0, 63, 0, 110, 82, 193, 154, 135, 255, 217>>

Redefined ==
    <<255, 216, 255, 224, 0, 4, 74, 70, 255, 219, 0, 5, 0, 16, 11, 255, 192,
      0, 11, 8, 0, 8, 0, 8, 1, 1, 17, 0, 255, 196, 0, 22, 0, 0, 3, 0, 0, 0,
      0, 0, 0, 0, 0, 0, 0, 0, 0, 0, 0, 0, 1, 2, 255, 196, 0, 50, 0, 0, 0, 7,
      0, 0, 0, 0, 0, 0, 0, 0, 0, 0, 0, 0, 0, 0, 1, 2, 3, 4, 5, 6, 16, 0, 0,
      7, 0, 0, 0, 0, 0, 0, 0, 0, 0, 0, 0, 0, 0, 0, 1, 2, 17, 240, 33, 8, 255,
      218, 0, 8, 1, 1, 0, 0, 63, 0, 51, 80, 255, 217>>

FillPair ==
    <<255, 216, 255, 224, 0, 4, 74, 70, 255, 219, 0, 5, 0, 16, 11, 255, 192,
      0, 11, 8, 0, 8, 0, 8, 1, 1, 17, 0, 255, 196, 0, 50, 0, 0, 0, 7, 0, 0,
      0, 0, 0, 0, 0, 0, 0, 0, 0, 0, 0, 0, 1, 2, 3, 4, 5, 6, 16, 0, 0, 7, 0,
      0, 0, 0, 0, 0, 0, 0, 0, 0, 0, 0, 0, 0, 1, 2, 17, 240, 33, 8, 255, 218,
      0, 8, 1, 1, 0, 0, 63, 0, 51, 80, 255, 255, 255, 217>>

OddFill ==
    <<255, 216, 255, 224, 0, 4, 74, 70, 255, 219, 0, 5, 0, 16, 11, 255, 192,
      0, 11, 8, 0, 8, 0, 8, 1, 1, 17, 0, 255, 196, 0, 50, 0, 0, 0, 7, 0, 0,
      0, 0, 0, 0, 0, 0, 0, 0, 0, 0, 0, 0, 1, 2, 3, 4, 5, 6, 16, 0, 0, 7, 0,
      0, 0, 0, 0, 0, 0, 0, 0, 0, 0, 0, 0, 0, 1, 2, 17, 240, 33, 8, 255, 218,
      0, 8, 1, 1, 0, 0, 63, 0, 51, 80, 255, 255, 217>>

QuantFF ==
    <<255, 216, 255, 224, 0, 4, 74, 70, 255, 219, 0, 8, 0, 255, 254, 11, 12,
      13, 255, 192, 0, 11, 8, 0, 8, 0, 8, 1, 1, 17, 0, 255, 196, 0, 50, 0, 0,
      0, 7, 0, 0, 0, 0, 0, 0, 0, 0, 0, 0, 0, 0, 0, 0, 1, 2, 3, 4, 5, 6, 16,
      0, 0, 7, 0, 0, 0, 0, 0, 0, 0, 0, 0, 0, 0, 0, 0, 0, 1, 2, 17, 240, 33,
      8, 255, 218, 0, 8, 1, 1, 0, 0, 63, 0, 51, 80, 255, 217>>

ApproxBits ==
    <<255, 216, 255, 224, 0, 4, 74, 70, 255, 219, 0, 5, 0, 16, 11, 255, 192,
      0, 11, 8, 0, 8, 0, 8, 1, 1, 17, 0, 255, 196, 0, 50, 0, 0, 0, 7, 0, 0,
      0, 0, 0, 0, 0, 0, 0, 0, 0, 0, 0, 0, 1, 2, 3, 4, 5, 6, 16, 0, 0, 7, 0,
      0, 0, 0, 0, 0, 0, 0, 0, 0, 0, 0, 0, 0, 1, 2, 17, 240, 33, 8, 255, 218,
      0, 8, 1, 1, 0, 0, 63, 1, 51, 80, 255, 217>>

SpectralStart ==
    <<255, 216, 255, 224, 0, 4, 74, 70, 255, 219, 0, 5, 0, 16, 11, 255, 192,
      0, 11, 8, 0, 8, 0, 8, 1, 1, 17, 0, 255, 196, 0, 50, 0, 0, 0, 7, 0, 0,
      0, 0, 0, 0, 0, 0, 0, 0, 0, 0, 0, 0, 1, 2, 3, 4, 5, 6, 16, 0, 0, 7, 0,
      0, 0, 0, 0, 0, 0, 0, 0, 0, 0, 0, 0, 0, 1, 2, 17, 240, 33, 8, 255, 218,
      0, 8, 1, 1, 0, 1, 63, 0, 51, 80, 255, 217>>

BadCategory ==
    <<255, 216, 255, 224, 0, 4, 74, 70, 255, 219, 0, 5, 0, 16, 11, 255, 192,
      0, 11, 8, 0, 8, 0, 8, 1, 1, 17, 0, 255, 196, 0, 50, 0, 0, 0, 7, 0, 0,
      0, 0, 0, 0, 0, 0, 0, 0, 0, 0, 0, 0, 1, 2, 3, 4, 5, 12, 16, 0, 0, 7, 0,
      0, 0, 0, 0, 0, 0, 0, 0, 0, 0, 0, 0, 0, 1, 2, 17, 240, 33, 8, 255, 218,
      0, 8, 1, 1, 0, 0, 63, 0, 213, 84, 63, 255, 217>>

ShortDht ==
    <<255, 216, 255, 224, 0, 4, 74, 70, 255, 219, 0, 5, 0, 16, 11, 255, 192,
      0, 11, 8, 0, 8, 0, 8, 1, 1, 17, 0, 255, 196, 0, 22, 0, 0, 0, 7, 0, 0,
      0, 0, 0, 0, 0, 0, 0, 0, 0, 0, 0, 0, 1, 2, 255, 218, 0, 8, 1, 1, 0, 0,
      63, 0, 51, 80, 255, 217>>

ShortSof ==
    <<255, 216, 255, 224, 0, 4, 74, 70, 255, 219, 0, 5, 0, 16, 11, 255, 192,
      0, 6, 8, 0, 8, 0, 255, 196, 0, 50, 0, 0, 0, 7, 0, 0, 0, 0, 0, 0, 0, 0,
      0, 0, 0, 0, 0, 0, 1, 2, 3, 4, 5, 6, 16, 0, 0, 7, 0, 0, 0, 0, 0, 0, 0,
      0, 0, 0, 0, 0, 0, 0, 1, 2, 17, 240, 33, 8, 255, 218, 0, 8, 1, 1, 0, 0,
      63, 0, 51, 80, 255, 217>>

ShortDri ==
    <<255, 216, 255, 224, 0, 4, 74, 70, 255, 219, 0, 5, 0, 16, 11, 255, 192,
      0, 11, 8, 0, 8, 0, 8, 1, 1, 17, 0, 255, 196, 0, 50, 0, 0, 0, 7, 0, 0,
      0, 0, 0, 0, 0, 0, 0, 0, 0, 0, 0, 0, 1, 2, 3, 4, 5, 6, 16, 0, 0, 7, 0,
      0, 0, 0, 0, 0, 0, 0, 0, 0, 0, 0, 0, 0, 1, 2, 17, 240, 33, 8, 255, 221,
      0, 3, 0, 255, 218, 0, 8, 1, 1, 0, 0, 63, 0, 51, 80, 255, 217>>

ShortSos ==
    <<255, 216, 255, 224, 0, 4, 74, 70, 255, 219, 0, 5, 0, 16, 11, 255, 192,
      0, 11, 8, 0, 8, 0, 8, 1, 1, 17, 0, 255, 196, 0, 50, 0, 0, 0, 7, 0, 0,
      0, 0, 0, 0, 0, 0, 0, 0, 0, 0, 0, 0, 1, 2, 3, 4, 5, 6, 16, 0, 0, 7, 0,
      0, 0, 0, 0, 0, 0, 0, 0, 0, 0, 0, 0, 0, 1, 2, 17, 240, 33, 8, 255, 218,
      0, 8, 1, 1, 255, 217>>

Images ==
    {GrayHalfByte,
     GrayWholeBytes,
     GrayZeroRun,
     GrayStuffed,
     FourTables,
     FourTablesWhole,
     SmallTables,
     MediumTables,
     LeadingFlatTable,
     LeadingLadderTable,
     Progressive,
     Truncated,
     Restart,
     RestartStuffed,
     RestartNoMarker,
     RestartEach,
     RestartPairs,
     TableIndexTwo,
     GrayPartial,
     Redefined,
     FillPair,
     OddFill,
     QuantFF,
     ApproxBits,
     SpectralStart,
     BadCategory,
     ShortDht,
     ShortSof,
     ShortDri,
     ShortSos}

\* the bytes a secret of one byte is drawn from
SecretBytes == {0, 1, 104, 255}

(***************************************************************************)
(* The write path (write_secret, write_secret_to_file) and the read path   *)
(* (read_secret) as a state machine over one input file and one secret.    *)
(***************************************************************************)

\* the secrets written: the empty string and strings of one byte
Secrets == {<<>>} \cup {<<b>> : b \in SecretBytes}

Init ==
    /\ reader \in Images
    /\ secret \in Secrets
    /\ JStart
    /\ level = 2
    /\ input = <<>>
    /\ value = 0
    /\ values = <<>>
    /\ NsIdle
    /\ rw = RwOff

\* write_secret: Jpeg::read_segments(reader)
ReadSegments ==
    /\ stage = "start"
    /\ LET read == Jpeg_read_segments(reader)
       IN  /\ stage' = IF read.kind = "Ok" THEN "segments" ELSE "panic"
           /\ jpeg' = IF read.kind = "Ok" THEN read.val ELSE jpeg
    /\ UNCHANGED <<reader, secret, table_sizes, table_values, digits, table_index,
                   cursor, writer, created, err, result>>
    /\ UNCHANGED <<nsvars, rw>>

\* write_secret: jpeg.process_segments(DhtReader) collects sizes and values
CollectTables ==
    /\ stage = "segments"
    /\ LET tables == DhtReader_tables(jpeg.segments)
       IN  /\ stage' = IF tables.kind = "Ok" THEN "collected" ELSE "panic"
           /\ table_sizes' = IF tables.kind = "Ok"
                             THEN [t \in 1..Len(tables.val) |-> tables.val[t].sizes]
                             ELSE table_sizes
           /\ table_values' = IF tables.kind = "Ok"
                              THEN [t \in 1..Len(tables.val) |-> tables.val[t].values]
                              ELSE table_values
    /\ UNCHANGED <<reader, secret, jpeg, digits, table_index, cursor, writer,
                   created, err, result>>
    /\ UNCHANGED <<nsvars, rw>>

\* EncodeSecret with File::create moved in front of the capacity check
EncodeSecret_create_first ==
    /\ stage = "collected"
    /\ LET n == NS2_try_from_input(from_bytes_be(encode_secret(secret)), table_sizes)
       IN  /\ stage' = IF n.kind = "Some" THEN "encoded"
                       ELSE IF n.kind = "None" THEN "error" ELSE "panic"
           /\ err' = IF n.kind = "None" THEN "Capacity" ELSE err
           /\ digits' = n.digits
    /\ created' = TRUE
    /\ UNCHANGED <<reader, secret, jpeg, table_sizes, table_values, table_index,
                   cursor, writer, result>>
    /\ UNCHANGED <<nsvars, rw>>

\* write_secret: NS2::try_from_input of the prefixed secret, bail on None
EncodeSecret ==
    /\ stage = "collected"
    /\ LET n == NS2_try_from_input(from_bytes_be(encode_secret(secret)), table_sizes)
       IN  /\ stage' = IF n.kind = "Some" THEN "encoded"
                       ELSE IF n.kind = "None" THEN "error" ELSE "panic"
           /\ err' = IF n.kind = "None" THEN "Capacity" ELSE err
           /\ digits' = n.digits
    /\ UNCHANGED <<reader, secret, jpeg, table_sizes, table_values, table_index,
                   cursor, writer, created, result>>
    /\ UNCHANGED <<nsvars, rw>>

\* write_secret: ns.permute_values(&mut table_values)
PermuteTableValues ==
    /\ stage = "encoded"
    /\ LET permuted == NS2_permute_values(digits, table_values)
       IN  /\ stage' = IF permuted.kind = "Ok" THEN "permuted" ELSE "panic"
           /\ table_values' = IF permuted.kind = "Ok" THEN permuted.values
                              ELSE table_values
    /\ UNCHANGED <<reader, secret, jpeg, table_sizes, digits, table_index, cursor,
                   writer, created, err, result>>
    /\ UNCHANGED <<nsvars, rw>>

\* write_secret_to_file: File::create(path), the DhtWriter takes the writer
CreateFile ==
    /\ stage = "permuted"
    /\ created' = TRUE
    /\ writer' = <<>>
    /\ cursor' = 1
    /\ table_index' = 0
    /\ stage' = IF Len(jpeg.segments) = 0 THEN "written" ELSE "writing"
    /\ UNCHANGED <<reader, secret, jpeg, table_sizes, table_values, digits, err,
                   result>>
    /\ UNCHANGED <<nsvars, rw>>

\* Jpeg::process_segments_mut(DhtWriter), one segment
ProcessSegmentMut ==
    /\ stage = "writing"
    /\ \E step \in {process_segment_mut(jpeg, jpeg.segments[cursor], table_values,
                                        table_index)} :
           /\ stage' = IF step.kind = "Err" THEN "error"
                       ELSE IF step.kind = "Panic" THEN "panic"
                       ELSE IF cursor = Len(jpeg.segments) THEN "written"
                       ELSE "writing"
           /\ err' = step.err
           /\ jpeg' = step.jpeg
           /\ table_index' = step.table_index
           /\ writer' = writer \o step.bytes
           /\ cursor' = IF step.kind = "Ok" THEN cursor + 1 ELSE cursor
    /\ UNCHANGED <<reader, secret, table_sizes, table_values, digits, created, result>>
    /\ UNCHANGED <<nsvars, rw>>

\* read_secret on the file that write_secret produced
ReadSecret ==
    /\ stage = "written"
    /\ result' = read_secret(writer)
    /\ stage' = "read"
    /\ UNCHANGED <<reader, secret, jpeg, table_sizes, table_values, digits,
                   table_index, cursor, writer, created, err>>
    /\ UNCHANGED <<nsvars, rw>>

\* read_secret on the input file as it is
ReadOriginal ==
    /\ stage = "start"
    /\ result' = read_secret(reader)
    /\ stage' = "probed"
    /\ UNCHANGED <<reader, secret, jpeg, table_sizes, table_values, digits,
                   table_index, cursor, writer, created, err>>
    /\ UNCHANGED <<nsvars, rw>>

Next ==
    \/ ReadSegments
    \/ CollectTables
    \/ EncodeSecret
    \/ PermuteTableValues
    \/ CreateFile
    \/ ProcessSegmentMut
    \/ ReadSecret
    \/ ReadOriginal

Spec == Init /\ [][Next]_vars

(***************************************************************************)
(* The paired bit stream (rw_stream.rs) call by call: a call of read or    *)
(* read_huffman_dc/ac is a call of the reader followed by a call of the   *)
(* writer.  The trees come from one Huffman table (huffman.rs) whose       *)
(* values are replaced as the DhtWriter replaces them.                     *)
(***************************************************************************)

\* the longest code and the largest count of codes of one length
MaxCodeLen == 3

MaxCount == 3

\* the widest read(n)
MaxBits == 2

\* BITS arrays of MaxCodeLen lengths with at least one code
HuffSizes ==
    {s \in [1..MaxCodeLen -> 0..MaxCount] : Sum(s) > 0}

\* the values of a table of n codes, and the values that replace them
OldValues(n) == [i \in 1..n |-> i - 1]

NewValues(n) == [i \in 1..n |-> n - i]

\* the entropy bytes the stream is fed
StreamInputs == {<<b>> : b \in {0, 75, 180}} \cup {<<75, 180>>, <<180, 255>>}

\* the value a call of the reader left for the call of the writer
NoPending == [op |-> "none", bits |-> 0, value |-> 0, pos |-> 0]

Pending(op, bits, v, pos) == [op |-> op, bits |-> bits, value |-> v, pos |-> pos]

InitRW ==
    /\ \E sizes \in HuffSizes, bytes \in StreamInputs :
           rw = [pc |-> "new", sizes |-> sizes, in |-> ToBits(bytes),
                 tree |-> HuffmanRWTree_default, pos |-> 0, out |-> <<>>,
                 pending |-> NoPending]
    /\ JIdle
    /\ level = 2
    /\ input = <<>>
    /\ value = 0
    /\ values = <<>>
    /\ NsIdle

\* DhtWriter::process_segment for one table: the reader of the tree from
\* the values found, the writer from the values that replace them
CompileTrees ==
    /\ rw.pc = "new"
    /\ \E read_tree \in {compile_read_tree(construct_huffman_table(
                             rw.sizes, OldValues(Sum(rw.sizes))))} :
           rw' = IF read_tree.kind # "Ok" THEN [rw EXCEPT !.pc = "bad_tree"]
                 ELSE [rw EXCEPT
                          !.pc = "idle",
                          !.tree = HuffmanRWTree_new(
                                       read_tree.val,
                                       compile_write_tree(construct_huffman_table(
                                           rw.sizes, NewValues(Sum(rw.sizes)))).val)]
    /\ UNCHANGED <<nsvars, jvars>>

\* self.reader.read(bits)
BitReader_read(in, pos, bits) ==
    IF pos + bits > Len(in) THEN Err("Bitstream")
    ELSE Ok(BitsValue(SubSeq(in, pos + 1, pos + bits)))

\* self.reader.read_huffman(tree.reader()): the symbol of the code that
\* starts at pos
BitReader_read_huffman(in, pos, tree) ==
    LET found == {i \in 1..Len(tree) :
                     /\ pos + Len(tree[i].bits) <= Len(in)
                     /\ SubSeq(in, pos + 1, pos + Len(tree[i].bits)) = tree[i].bits}
    IN  IF found = {} THEN Err("Bitstream")
        ELSE Ok(tree[CHOOSE i \in found : \A j \in found : i <= j])

\* RWStream::read, first statement
ReaderRead ==
    /\ rw.pc = "idle"
    /\ \E bits \in 1..MaxBits :
           \E v \in {BitReader_read(rw.in, rw.pos, bits)} :
               rw' = IF v.kind # "Ok" THEN [rw EXCEPT !.pc = "err"]
                     ELSE [rw EXCEPT !.pc = "read",
                                     !.pos = @ + bits,
                                     !.pending = Pending("read", bits, v.val, rw.pos)]
    /\ UNCHANGED <<nsvars, jvars>>

\* the second statement writing a whole byte whatever the width read
WriterWrite_byte ==
    /\ rw.pc = "read"
    /\ rw' = [rw EXCEPT !.pc = "idle",
                        !.out = @ \o bin_to_vec(rw.pending.value, 8)]
    /\ UNCHANGED <<nsvars, jvars>>

\* RWStream::read, second statement: self.writer.write(bits, value)
WriterWrite ==
    /\ rw.pc = "read"
    /\ rw' = [rw EXCEPT !.pc = "idle",
                        !.out = @ \o bin_to_vec(rw.pending.value, rw.pending.bits)]
    /\ UNCHANGED <<nsvars, jvars>>

\* RWStream::read_huffman_dc / read_huffman_ac, first statement
ReaderReadHuffman ==
    /\ rw.pc = "idle"
    /\ \E e \in {BitReader_read_huffman(rw.in, rw.pos, rw.tree.reader)} :
           rw' = IF e.kind # "Ok" THEN [rw EXCEPT !.pc = "err"]
                 ELSE [rw EXCEPT !.pc = "huffman",
                                 !.pos = @ + Len(e.val.bits),
                                 !.pending = Pending("huffman", Len(e.val.bits),
                                                     e.val.value, rw.pos)]
    /\ UNCHANGED <<nsvars, jvars>>

\* RWStream::read_huffman_dc / read_huffman_ac, second statement:
\* self.writer.write_huffman(tree.writer(), value)
WriterWriteHuffman ==
    /\ rw.pc = "huffman"
    /\ rw' = [rw EXCEPT !.pc = "idle",
                        !.out = @ \o rw.tree.writer[rw.pending.value]]
    /\ UNCHANGED <<nsvars, jvars>>

\* RWStream::byte_align between two calls
ByteAlign ==
    /\ rw.pc = "idle"
    /\ rw.pos % 8 # 0 \/ Len(rw.out) % 8 # 0
    /\ rw' = [rw EXCEPT !.pos = 8 * ((@ + 7) \div 8),
                        !.out = @ \o [i \in 1..((8 - (Len(@) % 8)) % 8) |-> 0],
                        !.pending = NoPending]
    /\ UNCHANGED <<nsvars, jvars>>

NextRW ==
    \/ CompileTrees
    \/ ReaderRead
    \/ WriterWrite
    \/ ReaderReadHuffman
    \/ WriterWriteHuffman
    \/ ByteAlign

SpecRW == InitRW /\ [][NextRW]_vars

(***************************************************************************)
(* Properties of the number systems, checked under SpecNS.                 *)
(***************************************************************************)
\* the permutation a buffer of distinct bytes carries: the rank of each byte
Ranks(v) == [i \in 1..Len(v) |-> Position(sort(v), v[i])]

IsPermutation(p, n) ==
    /\ Len(p) = n
    /\ \A k \in 0..(n - 1) : \E i \in 1..n : p[i] = k

\* C3: for every two-level size profile S (entries 0 or 1 and groups with no
\* entry >= 2 included), every N < MAX(S) and value lists matching S,
\* try_from_input, then permute_values, then read_values yields N, and none of
\* the three operations panics.
C3_NestedRoundTrip ==
    (level = 2 /\ value < SpecMaxProfile(input)) =>
        /\ pc # "panic"
        /\ (pc = "read" => big = value)

\* C4: for every size input of NS0, NS1 or NS2 and every N below its MAX, the
\* number system returned by try_from_input converts back to the integer N.
C4_ToFromBigUint == pc = "big" => big = value

C4_Witness ==
    /\ pc = "big"
    /\ level = 2
    /\ Len(valid_groups(input)) = 2
    /\ value > MaxValue
    /\ big = value

\* C5: for a table size n >= 2, to_permutation yields a permutation of 0..n-1,
\* from_permutation of it has the digits of N again, and to_permutation of
\* from_permutation(p) is p for every permutation p.
C5_PermutationInverse ==
    (level = 0 /\ input >= 2) =>
        /\ (pc \in {"perm", "unperm"} => IsPermutation(permutation, input))
        /\ (pc = "unperm" => back = ns)
        /\ (pc = "reperm" => permutation = Ranks(values))

C5_Witness ==
    /\ level = 0
    /\ input >= 3
    /\ pc = "unperm"
    /\ value = factorial(input) - 1
    /\ permutation = [i \in 1..input |-> input - i]
    /\ back = ns

\* C6: for every vector of n pairwise distinct bytes and every N in [0, n!),
\* read_values of the buffer that permute_values produced for N returns N.
C6_PermuteThenRead ==
    (level = 0 /\ value < factorial(input)) =>
        /\ pc # "panic"
        /\ (pc = "read" => back = ns /\ big = value)

C6_Witness ==
    /\ level = 0
    /\ input >= 3
    /\ pc = "read"
    /\ value > 0
    /\ values # sort(values)
    /\ buf.values # values
    /\ big = value

\* C7: try_from_input returns None exactly when N >= MAX(S), the product of n!
\* over the entries n >= 2 of S, and Some for every smaller N; in the None case
\* the operation stops there, with no value list permuted.
C7_NoneIffTooLarge ==
    (pc \notin {"start", "scanned", "reperm", "panic_scan", "legacy", "panic_legacy",
                "dup_read"}) =>
        /\ (ns.kind = "None" <=> value >= SpecMax(level, input))
        /\ (ns.kind = "Some" <=> value < SpecMax(level, input))
        /\ (ns.kind = "None" => pc = "none" /\ buf = BufOk(<<>>))

C7_Witness ==
    /\ pc = "none"
    /\ level = 2
    /\ Len(valid_groups(input)) = 2
    /\ value = SpecMaxProfile(input)
    /\ ns = None


\* the integer a list of NS0 digit lists stands for when position k has the
\* place value Place(k)
C11_Weighted(ds, Place(_)) ==
    Sum([k \in 1..Len(ds) |-> NS0_to_biguint(ds[k]) * Place(k)])

\* the product of n! over the positions before k, and over those after k
C11_Before(v, k) == Product([j \in 1..(k - 1) |-> factorial(v[j])])

C11_After(v, k) == Product([j \in 1..(Len(v) - k) |-> factorial(v[k + j])])

\* the size lists and digit lists of the tables that take part in a run
C11_Lists == IF level = 1 THEN <<valid_sizes(input)>>
             ELSE [g \in 1..Len(valid_groups(input)) |->
                      valid_sizes(valid_groups(input)[g])]

C11_Digits == IF level = 1 THEN <<ns.digits>> ELSE ns.digits

C11_Encoded == level \in {1, 2} /\ ns.kind = "Some"

\* C11: in the nested encoding over permutation lengths n_1..n_m the place
\* value of position k is the product of n_j! over the positions j before k,
\* so the first position is the least significant one.
C11_PlaceBefore ==
    C11_Encoded =>
        value = Sum([g \in 1..Len(C11_Lists) |->
                       C11_Weighted(C11_Digits[g],
                                    LAMBDA k : C11_Before(C11_Lists[g], k))
                       * Product([h \in 1..(g - 1) |-> SpecMaxList(C11_Lists[h])])])

\* C11 as the code has it: the place value of position k is the product of
\* n_j! over the positions j after k, so the last position is the least
\* significant one, within a table and across tables.
C11_PlaceAfter ==
    C11_Encoded =>
        value = Sum([g \in 1..Len(C11_Lists) |->
                       C11_Weighted(C11_Digits[g],
                                    LAMBDA k : C11_After(C11_Lists[g], k))
                       * Product([h \in 1..(Len(C11_Lists) - g) |->
                                     SpecMaxList(C11_Lists[g + h])])])

\* digits(5, [2, 3]) = [[0], [2, 1]]
C11_Witness ==
    /\ level = 1
    /\ input = <<2, 3>>
    /\ value = 5
    /\ pc = "encoded"
    /\ ns = Some(<<(<<0>>), <<2, 1>>>>)

\* a size list without its entries 0 and 1
C12_Strip(s) == SelectSeq(s, LAMBDA n : n >= 2)

C13_LexRank(p) ==
    Sum([i \in 1..Len(p) |->
           Cardinality({j \in (i + 1)..Len(p) : p[j] < p[i]})
               * factorial(Len(p) - i)])

C14_PermuteIdempotent ==
    /\ pc # "panic_again"
    /\ pc = "repermuted" => again = buf

C14_Witness ==
    /\ pc = "repermuted"
    /\ level = 2
    /\ Len(valid_groups(input)) = 2
    /\ \A g \in 1..2 : buf.values[g] # values[g]
    /\ again = buf

\* C21: permute_values and read_values reject a value list that holds a
\* byte twice: neither returns a permuted buffer or a digit string for it.
C21_DuplicatesRejected ==
    /\ pc = "dup_permuted" => again.kind # "Ok"
    /\ pc = "dup_read" => back.kind # "Some"

\* the entries of S that take a slice, in order
C27_Used(S) == SelectSeq(S, LAMBDA n : n >= 2)

\* the k-th slice of V: consecutive from offset 0, one per entry >= 2
C27_Slice(S, V, k) ==
    SubSeq(V, Sum(SubSeq(C27_Used(S), 1, k - 1)) + 1, Sum(SubSeq(C27_Used(S), 1, k)))

\* the bytes of V behind the last slice
C27_Rest(S, V) == SubSeq(V, Sum(C27_Used(S)) + 1, Len(V))

\* the digits read_values returned are those of the slices of V
C27_ReadFrom(V) ==
    /\ back.kind = "Some"
    /\ Len(back.digits) = Len(C27_Used(input))
    /\ \A k \in 1..Len(back.digits) :
           back.digits[k] = NS0_read_values(C27_Slice(input, V, k)).digits
    /\ back = NS1_read_values(C27_Used(input), V)
    /\ \A i \in 1..Len(input) :
           input[i] < 2 =>
               back = NS1_read_values(
                          SubSeq(input, 1, i - 1) \o SubSeq(input, i + 1, Len(input))
                              \o <<input[i]>>, V)

\* C27: read_values and permute_values of NS1 take their slices of V
\* consecutively from offset 0, one for each entry of S that is >= 2, in
\* order; an entry 0 or 1 takes no byte (so it can stand anywhere in S),
\* and both operations use the same slices.
C27_SlicesOfValidSizes ==
    level = 1 =>
        /\ pc = "scanned" => C27_ReadFrom(values)
        /\ pc = "read" => C27_ReadFrom(buf.values)
        /\ pc \in {"permuted", "read"} =>
               /\ \A k \in 1..Len(C27_Used(input)) :
                      C27_Slice(input, buf.values, k)
                          = NS0_permute_values(ns.digits[k],
                                               C27_Slice(input, values, k)).values
               /\ C27_Rest(input, buf.values) = C27_Rest(input, values)

\* sizes [1, 3]: the slice of three bytes starts at offset 0, and the byte
\* behind it is left alone
C27_Witness ==
    /\ level = 1
    /\ input = <<1, 3>>
    /\ pc = "read"
    /\ ns.digits # <<(<<0, 0>>)>>
    /\ buf.values # values
    /\ buf.values[4] = values[4]

(***************************************************************************)
(* Properties of the write and read paths, checked under Spec.             *)
(***************************************************************************)

\* the integer the write path encodes: the secret behind the prefix 0xBEEF
Prefixed(s) == from_bytes_be(encode_secret(s))

\* the code table a decoder builds for the codes of a writer: its symbols
\* in increasing order, each with its code
TableOf(w) ==
    [i \in 1..Cardinality(DOMAIN w) |->
        LET s == CHOOSE s \in DOMAIN w : Cardinality({t \in DOMAIN w : t < s}) = i - 1
        IN  [value |-> s, bits |-> w[s]]]

\* the trees of a decoder that knows the new tables only
NewTables(j) ==
    [j EXCEPT !.dc_trees = [i \in 1..Len(j.dc_trees) |->
                               [reader |-> TableOf(j.dc_trees[i].writer),
                                writer |-> j.dc_trees[i].writer]],
              !.ac_trees = [i \in 1..Len(j.ac_trees) |->
                               [reader |-> TableOf(j.ac_trees[i].writer),
                                writer |-> j.ac_trees[i].writer]]]

\* the entropy stream of the input file
InputStream ==
    LET k == CHOOSE k \in 1..Len(jpeg.segments) : jpeg.segments[k].marker.kind = "SOS"
    IN  SosData_try_from(jpeg.segments[k].data).val.image_data

\* the integer the tables of a file hold
Recovered(bytes) ==
    LET tables == DhtReader_tables(scan_sections(bytes).val).val
    IN  NS2_to_biguint(NS2_read_values([t \in 1..Len(tables) |-> tables[t].sizes],
                                       [t \in 1..Len(tables) |-> tables[t].values]).digits)

\* C1: for a file whose tables have the capacity and a non-empty secret s
\* with 0xBEEF||s < MAX, read_secret on the output of write_secret returns
\* exactly s.
C1_WriteThenRead ==
    (/\ stage = "read"
     /\ secret # <<>>
     /\ Prefixed(secret) < SpecMaxProfile(table_sizes))
        => result = Ok(Secret(secret))

\* C2: the transcoded entropy stream, decoded with the new tables, gives the
\* same sequence of DC categories, DC bits, AC symbols, AC bits and EOB runs
\* as the input stream decoded with the old tables.
C2_SameDecoding ==
    stage \in {"written", "read"} =>
        LET old == transcode(jpeg, InputStream)
            new == transcode(NewTables(jpeg), jpeg.scan.image_data)
        IN  old.kind = "Ok" => (new.kind = "Ok" /\ new.events = old.events)

\* C8: when the write operation ends in an error, no byte has been written
\* and the output has not been created.
C8_NoPartialOutput == stage = "error" => (writer = <<>> /\ ~created)

\* C9: the capacity check precedes every output action: the capacity error
\* is returned exactly when the prefixed integer does not fit, with no file
\* created and no byte written; a file is created and bytes are written
\* only for an integer that fits.
C9_CapacityCheckFirst ==
    /\ (stage = "error" /\ err = "Capacity") => (~created /\ writer = <<>>)
    /\ (created \/ writer # <<>>) => Prefixed(secret) < SpecMaxProfile(table_sizes)
    /\ stage \in {"encoded", "permuted", "writing", "written", "read", "error"}
          => (err = "Capacity" <=> Prefixed(secret) >= SpecMaxProfile(table_sizes))

\* C9 witness: a file whose tables hold the bare prefix but not one byte
\* more, a secret of one byte, the capacity error, nothing created.
C9_Witness ==
    /\ stage = "error"
    /\ err = "Capacity"
    /\ secret # <<>>
    /\ SpecMaxProfile(table_sizes) > Prefixed(<<>>)
    /\ ~created
    /\ writer = <<>>

\* what C10 expects of an integer n below 2^31: the bytes behind 0xBE 0xEF
C10_Expected(n) ==
    IF n = Prefixed(<<>>) THEN Secret(<<>>)
    ELSE IF n \div 256 = Prefixed(<<>>) THEN Secret(<<n % 256>>)
    ELSE NoSecret

\* C10: read_secret returns the bytes after the first two whenever the
\* big-endian encoding of the recovered integer starts with 0xBE 0xEF, the
\* empty remainder included, and no message in every other case.
C10_ReadSecret ==
    (stage \in {"read", "probed"} /\ result.kind = "Ok") =>
        result.val = C10_Expected(Recovered(IF stage = "read" THEN writer ELSE reader))

\* the tables of the input file, in file order
C15_InputTables == DhtReader_tables(scan_sections(reader).val).val

\* the tree slot a table is stored in
C15_Slot(j, t) ==
    IF t.table_class = 0 THEN j.dc_trees[t.table_index + 1]
    ELSE j.ac_trees[t.table_index + 1]

\* no later table of the file is stored in the slot of table t
C15_Last(t) ==
    \A u \in (t + 1)..Len(C15_InputTables) :
        \/ (C15_InputTables[u].table_class = 0) # (C15_InputTables[t].table_class = 0)
        \/ C15_InputTables[u].table_index # C15_InputTables[t].table_index

\* C15: for fixed sizes, construct_huffman_table of permuted values returns
\* the same codeword bit strings in the same positions; only the symbol
\* attached to a codeword changes, so the code lengths in use are unchanged.
C15_SameCodewords ==
    stage \in {"permuted", "writing", "written", "read"} =>
        \A t \in 1..Len(table_sizes) :
            LET old == construct_huffman_table(table_sizes[t],
                                               C15_InputTables[t].values)
                new == construct_huffman_table(table_sizes[t], table_values[t])
            IN  /\ Len(new) = Len(old)
                /\ \A i \in 1..Len(old) : new[i].bits = old[i].bits
                /\ sort([i \in 1..Len(new) |-> new[i].value])
                       = sort([i \in 1..Len(old) |-> old[i].value])
                /\ stage \in {"written", "read"} /\ C15_Last(t) =>
                       /\ C15_Slot(jpeg, C15_InputTables[t]).reader = old
                       /\ \A i \in 1..Len(new) :
                              C15_Slot(jpeg, C15_InputTables[t]).writer[new[i].value]
                                  = old[i].bits

C15_Witness ==
    /\ stage = "written"
    /\ Len(table_sizes) = 4
    /\ \A t \in 1..Len(table_sizes) :
           /\ table_values[t] # C15_InputTables[t].values
           /\ C15_Slot(jpeg, C15_InputTables[t]).reader
                  = construct_huffman_table(table_sizes[t], C15_InputTables[t].values)

\* the number of bytes 0xFF that stand directly in front of index p
C16_FillRun(bytes, p) ==
    Cardinality({k \in 1..p : \A q \in (p - k)..(p - 1) : bytes[q + 1] = 255})

\* the walk steps by one over a byte that is not 0xFF and by two over 0xFF:
\* it meets index p exactly when an even number of 0xFF bytes precede it
C16_Met(bytes, p) == C16_FillRun(bytes, p) % 2 = 0

\* the pairs 0xFF m met by the walk with m not 0x00, not 0xFF and not RST
C16_MarkerPairs(bytes) ==
    {p \in 0..(Len(bytes) - 2) :
        /\ C16_Met(bytes, p)
        /\ bytes[p + 1] = 255
        /\ bytes[p + 2] \notin ({0, 255} \cup (208..215))}

\* C16: the segments recorded are exactly the marker pairs met by the walk,
\* in file order and with the marker of the pair's second byte; stuffed
\* pairs, fill pairs and RST markers start no segment, and the payload of an
\* SOS segment that is not the last one runs to the next recorded marker.
C16_SegmentsAreMarkerPairs ==
    stage \in {"segments", "collected"} =>
        /\ {jpeg.segments[j].index : j \in 1..Len(jpeg.segments)} = C16_MarkerPairs(reader)
        /\ \A j \in 1..Len(jpeg.segments) :
               /\ j > 1 => jpeg.segments[j - 1].index < jpeg.segments[j].index
               /\ u8_from_Marker(jpeg.segments[j].marker) = reader[jpeg.segments[j].index + 2]
               /\ jpeg.segments[j].marker.kind = "SOS" /\ j < Len(jpeg.segments) =>
                      jpeg.segments[j].data =
                          SubSeq(reader, jpeg.segments[j].index + 5,
                                 jpeg.segments[j + 1].index)

\* a file with a restart marker and a stuffed pair inside the entropy
\* stream has been scanned, and the SOS payload holds both
C16_Witness ==
    /\ stage = "segments"
    /\ \E j \in 1..(Len(jpeg.segments) - 1) :
           /\ jpeg.segments[j].marker.kind = "SOS"
           /\ \E p \in 1..(Len(jpeg.segments[j].data) - 1) :
                  /\ jpeg.segments[j].data[p] = 255
                  /\ jpeg.segments[j].data[p + 1] \in 208..215
    /\ \E p \in 1..(Len(reader) - 1) :
           /\ reader[p] = 255
           /\ reader[p + 1] \in {0, 255}

\* the bytes of segment j as they stand in the file: marker, length field
\* and payload, up to the next segment
C17_Raw(bytes, segments, j) ==
    SubSeq(bytes, segments[j].index + 1,
           IF j < Len(segments) THEN segments[j + 1].index ELSE Len(bytes))

\* the class, index and sizes of the tables of a DHT payload
C17_Shape(data) ==
    LET tables == DhtData_try_from(data)
    IN  IF tables.kind # "Ok" THEN <<>>
        ELSE [t \in 1..Len(tables.val) |->
                 <<tables.val[t].table_class, tables.val[t].table_index,
                   tables.val[t].sizes>>]

C17_Same(out) ==
    /\ out.kind = "Ok"
    /\ Len(out.val) = Len(jpeg.segments)
    /\ \A j \in 1..Len(jpeg.segments) :
           /\ out.val[j].marker = jpeg.segments[j].marker
           /\ jpeg.segments[j].marker.kind \notin {"DHT", "SOS"} =>
                  C17_Raw(writer, out.val, j) = C17_Raw(reader, jpeg.segments, j)
           /\ jpeg.segments[j].marker.kind = "DHT" =>
                  C17_Shape(out.val[j].data) = C17_Shape(jpeg.segments[j].data)

\* C17: in the file written, every segment other than DHT and SOS stands
\* byte for byte (marker, length field, payload) as in the input and at the
\* same place in the order of segments, and every table of a DHT segment
\* keeps its class, index and 16 sizes.
C17_OnlyValuesAndStreamChange ==
    stage = "written" => C17_Same(scan_sections(writer))

\* the header of SOS segment j is not that of a baseline/sequential scan
C18_NotBaseline(j) ==
    /\ jpeg.segments[j].marker.kind = "SOS"
    /\ LET scan == SosData_try_from(jpeg.segments[j].data)
       IN  /\ scan.kind = "Ok"
           /\ \/ scan.val.spectral_start # 0
              \/ scan.val.spectral_end # 64
              \/ scan.val.approx_high # 0
              \/ scan.val.approx_low # 0

\* C18: a scan with spectral_start # 0, spectral_end # 64 or nonzero
\* approximation bits is never transcoded: the write stops at its SOS
\* segment with the error UnsupportedScan.
C18_RejectsNonBaseline ==
    \A j \in 1..Len(jpeg.segments) :
        C18_NotBaseline(j) =>
            /\ stage \notin {"written", "read"}
            /\ stage = "writing" => cursor <= j
            /\ stage \in {"error", "panic"} /\ cursor = j =>
                   stage = "error" /\ err = "UnsupportedScan"

\* the write stopped inside the transcoding of the scan: at an SOS segment
\* whose header was parsed and passed the test for unsupported scans
C19_TranscodeStopped ==
    /\ stage \in {"error", "panic"}
    /\ cursor \in 1..Len(jpeg.segments)
    /\ jpeg.segments[cursor].marker.kind = "SOS"
    /\ LET scan == SosData_try_from(jpeg.segments[cursor].data)
       IN  /\ scan.kind = "Ok"
           /\ scan.val.spectral_start = 0
           /\ scan.val.spectral_end = 64

\* C19: a transcoding that cannot go on (input exhausted, DC size category
\* outside 0..=11) ends the write with the error value BitstreamError.
C19_BitstreamErrorReturned ==
    C19_TranscodeStopped => stage = "error" /\ err = "Bitstream"

\* a DHT payload is a list of tables, each of 17 bytes followed by as many
\* values as its sizes sum to
RECURSIVE C20_DhtComplete(_)
C20_DhtComplete(data) ==
    \/ data = <<>>
    \/ /\ Len(data) >= 17
       /\ Len(data) >= 17 + Sum(SubSeq(data, 2, 17))
       /\ C20_DhtComplete(SubSeq(data, 18 + Sum(SubSeq(data, 2, 17)), Len(data)))

\* the payload of a segment is shorter than its own header announces
C20_Malformed(segment) ==
    LET k == segment.marker.kind
        data == segment.data
    IN  \/ k = "DHT" /\ ~C20_DhtComplete(data)
        \/ k \in {"SOF0", "SOF1", "SOF2"} /\ (Len(data) < 6 \/ Len(data) < 6 + 3 * data[6])
        \/ k = "DRI" /\ Len(data) < 2
        \/ k = "SOS" /\ (Len(data) < 1 \/ Len(data) < 2 * data[1] + 4)

C20_Parsed(segments) ==
    \A j \in 1..Len(segments) :
        C20_Malformed(segments[j]) =>
            /\ stage \notin {"panic", "written", "read"}
            /\ stage = "writing" => cursor <= j
            /\ stage = "error" /\ cursor = j => err = "Parse"
            /\ stage = "probed" /\ segments[j].marker.kind = "DHT" =>
                   result = Err("Parse")

\* C20: a segment whose payload is malformed (DHT with fewer values than
\* sum(sizes), truncated SOF or DRI, SOS header shorter than its component
\* count requires) ends the operation that parses it with the error value
\* ParseError: no panic, and nothing is processed past it.
C20_ParseErrorReturned ==
    scan_sections(reader).kind = "Ok" => C20_Parsed(scan_sections(reader).val)

\* the SOS segment of the file has been transcoded and written
C22_Transcoded(j) ==
    /\ j \in 1..Len(jpeg.segments)
    /\ jpeg.segments[j].marker.kind = "SOS"
    /\ \/ stage \in {"written", "read"}
       \/ stage = "writing" /\ j < cursor

\* the stream state at the end of the transcoding of SOS segment j
C22_Stream(j) == transcode(jpeg, SosData_try_from(jpeg.segments[j].data).val.image_data)

\* body is data with a 0x00 after every 0xFF whose index in data is not in
\* marks and with nothing else added: a walk over both from byte i of body
\* and index u of data
RECURSIVE C22_Stuffed(_, _, _, _, _)
C22_Stuffed(body, data, marks, i, u) ==
    IF i > Len(body) THEN u = Len(data)
    ELSE /\ u < Len(data)
         /\ body[i] = data[u + 1]
         /\ IF body[i] = 255 /\ u \notin marks
            THEN /\ i < Len(body)
                 /\ body[i + 1] = 0
                 /\ C22_Stuffed(body, data, marks, i + 2, u + 1)
            ELSE C22_Stuffed(body, data, marks, i + 1, u + 1)

\* every recorded marker position holds 0xFF followed by a restart code
C22_Markers(data, marks) ==
    \A p \in marks :
        /\ p + 2 <= Len(data)
        /\ data[p + 1] = 255
        /\ data[p + 2] \in 208..215

C22_Body(body, st) ==
    /\ C22_Stuffed(body, WrittenBytes(st.out), st.marks, 1, 0)
    /\ C22_Markers(WrittenBytes(st.out), st.marks)

\* C22: in the body returned by process_entropy_stream every 0xFF is
\* followed by 0x00 unless its index in the unstuffed output is a recorded
\* marker position, and every recorded marker position holds the 0xFF of a
\* restart marker followed directly by its code.
C22_StuffedExceptMarkers ==
    \A j \in 1..Len(jpeg.segments) :
        C22_Transcoded(j) => C22_Body(jpeg.scan.image_data, C22_Stream(j))

\* ceil(a / b)
C23_Ceil(a, b) == (a + b - 1) \div b

\* the number of MCUs of the frame: ceil(W / (8 h_max)) * ceil(H / (8 v_max))
C23_Mcus ==
    LET c == jpeg.frame.components
        h_max == CHOOSE h \in {c[k].h_factor : k \in 1..Len(c)} :
                     \A k \in 1..Len(c) : c[k].h_factor <= h
        v_max == CHOOSE v \in {c[k].v_factor : k \in 1..Len(c)} :
                     \A k \in 1..Len(c) : c[k].v_factor <= v
    IN  C23_Ceil(jpeg.frame.width, 8 * h_max) * C23_Ceil(jpeg.frame.height, 8 * v_max)

\* the destuffed bits of the entropy stream of SOS segment j
C23_Input(j) ==
    ToBits(strip_stream_padding(
               SosData_try_from(jpeg.segments[j].data).val.image_data).val)

\* the stream state in front of the MCU of index k
C23_Before(in, k) ==
    decode_mcus(in, RWStream_new(jpeg.restart_interval), jpeg,
                get_components_info(jpeg).val, k)

\* from s to r the restart step was taken: both sides at the next byte
\* boundary, the writer's byte offset recorded, 16 bits copied, eob_run 0
C23_Taken(in, s, r) ==
    LET at == 8 * C23_Ceil(s.pos, 8)
        to == 8 * C23_Ceil(Len(s.out), 8)
    IN  /\ r.pos = at + 16
        /\ Len(r.out) = to + 16
        /\ SubSeq(r.out, 1, Len(s.out)) = s.out
        /\ SubSeq(r.out, to + 1, to + 16) = SubSeq(in, at + 1, at + 16)
        /\ r.marks = s.marks \cup {to \div 8}
        /\ r.eob_run = 0

\* from s to r nothing was aligned, recorded, copied or reset
C23_Skipped(s, r) ==
    /\ r.pos = s.pos
    /\ r.out = s.out
    /\ r.marks = s.marks
    /\ r.eob_run = s.eob_run

C23_Step(in, k, s) ==
    IF jpeg.restart_interval > 0 /\ k > 0 /\ k % jpeg.restart_interval = 0
    THEN C23_Taken(in, s, restart_marker(in, s, jpeg.restart_interval))
    ELSE C23_Skipped(s, restart_marker(in, s, jpeg.restart_interval))

\* the codes of the restart markers of a stuffed body, in order
C23_Restarts(body) ==
    LET at == {k \in 1..(Len(body) - 1) : body[k] = 255 /\ body[k + 1] \in 208..215}
    IN  [n \in 1..Cardinality(at) |->
            body[(CHOOSE k \in at : Cardinality({x \in at : x < k}) = n - 1) + 1]]

\* C23: the restart step (byte-align both sides, record the writer's byte
\* offset, copy two bytes, eob_run := 0) is taken in front of the MCUs of
\* index i > 0 with i mod R = 0 and nowhere else, and the body written
\* carries the restart markers of the input in the same order.
C23_RestartAtInterval ==
    \A j \in 1..Len(jpeg.segments) :
        C22_Transcoded(j) =>
            /\ \A k \in 0..(C23_Mcus - 1) :
                   C23_Step(C23_Input(j), k, C23_Before(C23_Input(j), k))
            /\ C23_Restarts(jpeg.scan.image_data)
                   = C23_Restarts(SosData_try_from(jpeg.segments[j].data).val.image_data)

\* a file of three MCUs with restart interval 2 has been transcoded: one
\* marker position is recorded
C23_Witness ==
    /\ stage = "written"
    /\ jpeg.restart_interval = 2
    /\ C23_Mcus = 3
    /\ \E j \in 1..Len(jpeg.segments) :
           /\ C22_Transcoded(j)
           /\ Cardinality(C22_Stream(j).marks) = 1
           /\ C23_Restarts(jpeg.scan.image_data) = <<208>>

\* the tables of DHT segment j, all of class 0 or 1 and index 0..3
C25_Tables(j) == DhtData_try_from(jpeg.segments[j].data)

C25_Defined(j) ==
    /\ jpeg.segments[j].marker.kind = "DHT"
    /\ C25_Tables(j).kind = "Ok"
    /\ \A t \in 1..Len(C25_Tables(j).val) :
           /\ C25_Tables(j).val[t].table_class \in {0, 1}
           /\ C25_Tables(j).val[t].table_index \in 0..3

\* the slot of a table in the jpeg aggregate holds the decoding tree of the
\* table
C25_Stored(table) ==
    LET trees == IF table.table_class = 0 THEN jpeg.dc_trees ELSE jpeg.ac_trees
    IN  /\ table.table_index < Len(trees)
        /\ trees[table.table_index + 1].reader
               = construct_huffman_table(table.sizes, table.values)

\* C25: every table of class 0 or 1 and index 0..3 that a DHT segment
\* defines is stored in the jpeg aggregate without failure, where a later
\* scan component that names its index finds it.
C25_TablesStored ==
    \A j \in 1..Len(jpeg.segments) :
        C25_Defined(j) =>
            /\ ~(stage = "panic" /\ cursor = j)
            /\ stage = "writing" /\ cursor = j + 1 =>
                   \A t \in 1..Len(C25_Tables(j).val) : C25_Stored(C25_Tables(j).val[t])

\* the tables of the DHT segments 1..j of the file, in file order
C28_TablesUpTo(j) == DhtReader_tables(SubSeq(jpeg.segments, 1, j)).val

\* the place, among the tables in front of segment j, of the most recent
\* definition of the table (class, index); 0 when there is none
C28_Latest(j, class, index) ==
    LET defs == {n \in 1..Len(C28_TablesUpTo(j - 1)) :
                    /\ (C28_TablesUpTo(j - 1)[n].table_class = 0) = (class = 0)
                    /\ C28_TablesUpTo(j - 1)[n].table_index = index}
    IN  IF defs = {} THEN 0 ELSE CHOOSE n \in defs : \A m \in defs : m <= n

\* the tree decodes with the code of the table as the file defines it and
\* encodes with the code of the same sizes and the permuted values of the
\* same table
C28_Paired(tree, old, new_values) ==
    /\ sort(new_values) = sort(old.values)
    /\ tree.reader = construct_huffman_table(old.sizes, old.values)
    /\ tree.writer = compile_write_tree(
                         construct_huffman_table(old.sizes, new_values)).val

C28_InUse(j, n, tree) ==
    /\ n > 0
    /\ C28_Paired(tree, C28_TablesUpTo(j - 1)[n], table_values[n])

\* a step of the write pass leaves the segment at the cursor for the next
\* one of the file
C28_NextSegment ==
    stage = "writing" /\ stage' = "writing" => cursor' = cursor + 1

\* the trees of the scan components of the SOS segment at the cursor
C28_TreesAtScan ==
    stage = "writing" /\ jpeg.segments[cursor].marker.kind = "SOS"
        /\ SosData_try_from(jpeg.segments[cursor].data).kind = "Ok" =>
        \A c \in 1..Len(SosData_try_from(jpeg.segments[cursor].data).val.components) :
            LET sc == SosData_try_from(jpeg.segments[cursor].data).val.components[c]
            IN  /\ C28_InUse(cursor, C28_Latest(cursor, 0, sc.dc_table_index),
                             jpeg.dc_trees[sc.dc_table_index + 1])
                /\ C28_InUse(cursor, C28_Latest(cursor, 1, sc.ac_table_index),
                             jpeg.ac_trees[sc.ac_table_index + 1])

\* C28: segments are written in file order, and when the SOS segment is
\* about to be transcoded every table a scan component names decodes with
\* the code of its most recent definition in the file and encodes with the
\* code of the same sizes and the permuted values of that table.
C28_PairedTreesInFileOrder == []C28_TreesAtScan /\ [][C28_NextSegment]_vars

\* the scan of the file Redefined is about to be transcoded: its DC tree is
\* that of the second definition of the table, with the values changed
C28_Witness ==
    /\ stage = "writing"
    /\ jpeg.segments[cursor].marker.kind = "SOS"
    /\ C28_Latest(cursor, 0, 0) = 2
    /\ table_values[2] # C28_TablesUpTo(cursor - 1)[2].values
    /\ jpeg.dc_trees[1].reader
           = construct_huffman_table(table_sizes[2], C28_TablesUpTo(cursor - 1)[2].values)

\* the returned body without its stuffing holds at least as many bits as the
\* transcoder emitted
C29_Holds(body, st) ==
    /\ strip_stream_padding(body).kind = "Ok"
    /\ 8 * Len(strip_stream_padding(body).val) >= Len(st.out)

\* C29: every bit the transcoder emits reaches the returned body: a last
\* byte that the last MCU leaves unfinished is padded and written, so the
\* unstuffed output has at least as many bits as were emitted.
C29_EveryBitWritten ==
    \A j \in 1..Len(jpeg.segments) :
        C22_Transcoded(j) /\ C22_Stream(j).kind = "Ok" =>
            C29_Holds(jpeg.scan.image_data, C22_Stream(j))

\* the number of AC coefficients of the band of the scan: spectral_end less
\* max(spectral_start, 1) in the naturals, 0 for a band without one
C30_Band ==
    IF jpeg.scan.spectral_end > Max(jpeg.scan.spectral_start, 1)
    THEN jpeg.scan.spectral_end - Max(jpeg.scan.spectral_start, 1)
    ELSE 0

\* the stream state in front of block b of scan component i in the MCU of
\* index k (b and k count from 0)
C30_BlockStart(in, k, i, b) ==
    LET info == get_components_info(jpeg).val
    IN  decode_blocks(in,
            decode_components(in,
                restart_marker(in, C23_Before(in, k), jpeg.restart_interval),
                jpeg.scan, SubSeq(info, 1, i - 1), 1),
            jpeg.scan, info[i], b)

\* the AC symbols decoded between the stream states s and r of one block:
\* the symbols decoded, less the DC symbol when the scan has one
C30_AcSymbols(s, r) ==
    LET n == Cardinality({e \in (Len(s.events) + 1)..Len(r.events) :
                             r.events[e][1] = "huffman"})
    IN  IF jpeg.scan.spectral_start = 0 /\ n > 0 THEN n - 1 ELSE n

\* the block that starts in state s ends, and with no more AC symbols than
\* the band has coefficients
C30_BlockBounded(in, s, c) ==
    LET r == decode_block(in, s, jpeg.scan, c.dc_tree, c.ac_tree)
    IN  /\ r.kind \in {"Ok", "Err", "Panic"}
        /\ r.pos >= s.pos
        /\ C30_AcSymbols(s, r) <= C30_Band

C30_Blocks(in) ==
    LET info == get_components_info(jpeg).val
    IN  \A k \in 0..(C23_Mcus - 1) : \A i \in 1..Len(info) :
            \A b \in 0..(info[i].component.v_factor * info[i].component.h_factor - 1) :
                C30_BlockBounded(in, C30_BlockStart(in, k, i, b), info[i])

\* the transcoding is that of ceil(W / (8 h_max)) * ceil(H / (8 v_max)) MCU
\* steps, and when it succeeds each of them has consumed input
C30_McuSteps(in, st) ==
    /\ st = C23_Before(in, C23_Mcus)
    /\ st.kind = "Ok" =>
           \A k \in 0..(C23_Mcus - 1) : C23_Before(in, k + 1).pos > C23_Before(in, k).pos

\* the write stopped inside the transcoding of SOS segment j, after the
\* trees of the scan were found and the stuffing was removed
C30_Stopped(j) ==
    /\ C19_TranscodeStopped
    /\ cursor = j
    /\ jpeg.scan.spectral_end = 64
    /\ get_components_info(jpeg).kind = "Ok"
    /\ get_mcu_range(jpeg, get_components_info(jpeg).val).kind = "Ok"
    /\ strip_stream_padding(
           SosData_try_from(jpeg.segments[j].data).val.image_data).kind = "Ok"

\* C30: decode_block ends for every block, with at most spectral_end -
\* max(spectral_start, 1) AC symbols because the coefficient index grows in
\* every turn of the AC loop that does not end the block, and the scan is
\* transcoded in exactly ceil(W / (8 h_max)) * ceil(H / (8 v_max)) MCU steps.
C30_BoundedBlocksAndMcus ==
    \A j \in 1..Len(jpeg.segments) :
        C22_Transcoded(j) \/ C30_Stopped(j) =>
            /\ C30_Blocks(C23_Input(j))
            /\ C30_McuSteps(C23_Input(j), C22_Stream(j))

\* the scan of the file GrayPartial is written: two MCUs for a width of 12,
\* and the first block has decoded four AC symbols, a run of 16 zeros first
C30_Witness ==
    /\ stage = "written"
    /\ jpeg.frame.width = 12
    /\ C23_Mcus = 2
    /\ C30_Band = 63
    /\ \E j \in 1..Len(jpeg.segments) :
           /\ C22_Transcoded(j)
           /\ C22_Stream(j).kind = "Ok"
           /\ C30_BlockStart(C23_Input(j), 0, 1, 1).events[3] = <<"huffman", 240>>
           /\ C30_AcSymbols(C30_BlockStart(C23_Input(j), 0, 1, 0),
                            C30_BlockStart(C23_Input(j), 0, 1, 1)) = 4

\* the bits the reader consumed in the call that is open or was last closed
C24_Consumed == SubSeq(rw.in, rw.pending.pos + 1, rw.pos)

\* the table the reader of the tree was built from, and the table the
\* writer was built from
C24_OldTable == construct_huffman_table(rw.sizes, OldValues(Sum(rw.sizes)))

C24_NewTable == construct_huffman_table(rw.sizes, NewValues(Sum(rw.sizes)))

\* the stream state of the transcoder at the start of the open call
C24_AtCall ==
    [RWStream_new(0) EXCEPT !.pos = rw.pending.pos, !.out = rw.out]

\* one step of the paired stream: while a value waits for the writer the
\* reader does not move; read(n) has emitted the n bits it consumed when it
\* returns; read_huffman has emitted the new code of the symbol whose old
\* code it consumed; both agree with the calls as the transcoder makes them
C24_Step ==
    /\ rw.pc \in {"read", "huffman"} => rw'.pos = rw.pos /\ rw'.pc = "idle"
    /\ rw.pc = "read" =>
           /\ Len(C24_Consumed) = rw.pending.bits
           /\ rw'.out = rw.out \o C24_Consumed
           /\ rw'.out = RWStream_read(rw.in, C24_AtCall, rw.pending.bits).out
    /\ rw.pc = "huffman" =>
           /\ \E i, j \in 1..Len(C24_OldTable) :
                  /\ C24_OldTable[i].bits = C24_Consumed
                  /\ C24_NewTable[j].value = C24_OldTable[i].value
                  /\ rw'.out = rw.out \o C24_NewTable[j].bits
           /\ rw'.out = RWStream_read_huffman(rw.in, C24_AtCall, rw.tree).out
    /\ rw'.pos > rw.pos => rw.pc = "idle"

\* C24: emission is causal call by call: every bit a call of read,
\* read_huffman_dc or read_huffman_ac consumed has its output bits written
\* before the reader consumes again, and read(n) emits exactly the n bits
\* it consumed.
C24_CausalEmission == [][C24_Step]_vars

\* a call of read_huffman has returned after a call of read: the code
\* written differs from the code consumed
C24_Witness ==
    /\ rw.pc = "idle"
    /\ rw.pending.op = "huffman"
    /\ Len(rw.out) >= rw.pending.bits + MaxBits
    /\ SubSeq(rw.out, Len(rw.out) - rw.pending.bits + 1, Len(rw.out)) # C24_Consumed

\* the Kraft inequality of a sizes array: the codes of the lengths fit into
\* the code space of the longest length
C26_Kraft(sizes) ==
    Sum([L \in 1..Len(sizes) |-> sizes[L] * 2 ^ (Len(sizes) - L)]) <= 2 ^ Len(sizes)

\* the length of the size group the k-th value belongs to
C26_Length(sizes, k) ==
    CHOOSE L \in 1..Len(sizes) :
        /\ Sum(SubSeq(sizes, 1, L)) >= k
        /\ Sum(SubSeq(sizes, 1, L - 1)) < k

\* the canonical code of the k-th value: 0 for the first, and for the next
\* the code after it, shifted left by the difference of the lengths
RECURSIVE C26_Code(_, _)
C26_Code(sizes, k) ==
    IF k = 1 THEN 0
    ELSE (C26_Code(sizes, k - 1) + 1)
             * 2 ^ (C26_Length(sizes, k) - C26_Length(sizes, k - 1))

C26_Canonical(sizes, vals, table) ==
    /\ Len(table) = Len(vals) + 1
    /\ \A k \in 1..Len(vals) :
           /\ table[k].value = vals[k]
           /\ Len(table[k].bits) = C26_Length(sizes, k)
           /\ BitsValue(table[k].bits) = C26_Code(sizes, k)
           /\ k > 1 => BitsValue(table[k].bits) > BitsValue(table[k - 1].bits)
    /\ \A i, j \in 1..Len(vals) :
           i # j => ~IsPrefix(table[i].bits, table[j].bits)

\* C26: for a sizes array that satisfies the Kraft inequality and a value
\* list of length sum(sizes), construct_huffman_table gives the k-th value a
\* code of the length of its size group, the codes are the canonical ones in
\* strictly increasing order, and no code of a value is a prefix of another.
C26_CanonicalCodes ==
    rw.pc \notin {"off", "new"} /\ C26_Kraft(rw.sizes) =>
        /\ C26_Canonical(rw.sizes, OldValues(Sum(rw.sizes)), C24_OldTable)
        /\ C26_Canonical(rw.sizes, NewValues(Sum(rw.sizes)), C24_NewTable)

\* the trees of two codes of length 2 and three of length 3 were built: the
\* third value has the code 100
C26_Witness ==
    /\ rw.pc = "idle"
    /\ rw.sizes = <<0, 2, 3>>
    /\ C24_OldTable[3] = [value |-> 2, bits |-> <<1, 0, 0>>]
    /\ C24_NewTable[3].value = 2
====
